---- MODULE Spec2Model ----
(***************************************************************************)
(* Distributed-transactions benchmark: the Saga, TCC and 2PC/XA            *)
(* participants (Orders, Inventory, Payments) and the orchestration of     *)
(* their phases.  Every participant handler runs inside one database       *)
(* transaction that first takes the row lock (SELECT ... FOR UPDATE) and   *)
(* holds it until commit or rollback, so a handler is one atomic action    *)
(* on the committed state of its database.                                 *)
(***************************************************************************)
EXTENDS Integers, Sequences, FiniteSets, TLC

\* ------------------------------------------------------------------------
\* Bounds of the model
\* ------------------------------------------------------------------------
NumOrders == 2
InitStock == 2
InitAmount == 2

OrderIds == 1..NumOrders

\* one more order, whose payload names a product and a user that have no row
GhostOrder == NumOrders + 1

AllOrders == OrderIds \cup {GhostOrder}

ProductRows == {"p1"}
UserRows == {"u1"}

ProductOf(o) == IF o = GhostOrder THEN "p9" ELSE "p1"
UserOf(o) == IF o = GhostOrder THEN "u9" ELSE "u1"
AmountOf(o) == IF o = GhostOrder THEN 1 ELSE o

\* the payload every branch of one order carries: TCCActionRequest and
\* XAActionRequest name the price total_price, SagaActionRequest names it amount
Payload(o) ==
    [order_id |-> o, user_id |-> UserOf(o), product_id |-> ProductOf(o),
     total_price |-> AmountOf(o), amount |-> AmountOf(o)]

VARIABLES
    tccProducts,    \* TCC products_inventory: product_id -> [current_stock, stock_available]
    tccMovements,   \* TCC inventory_movements: order_id -> sequence of row statuses
    tccWallets,     \* TCC wallets: user_id -> [current_amount, available_amount]
    tccPayments,    \* TCC payment_transactions: order_id -> sequence of [status, amount]
    tccOrders,      \* TCC orders: order_id -> status ("" when there is no row)
    tccPhase,       \* coordinator: order_id -> "idle" | "invalid" | "no_gid" | "stub" | "try" | "confirming" | "cancelling"
    tccNext,        \* coordinator: order_id -> index of the next branch whose Try is called
    tccResp,        \* POST /api/orders: order_id -> the HTTP status answered (0 while there is none)
    sagaProducts,   \* Saga products_inventory: product_id -> current_stock
    sagaMovements,  \* Saga inventory_movements: order_id -> sequence of movement types
    sagaWallets,    \* Saga wallets: user_id -> current_amount
    sagaPayments,   \* Saga user_payments: order_id -> sequence of [type, amount]
    sagaOrders,     \* Saga orders: order_id -> status ("" when there is no row)
    sagaPhase,      \* coordinator: order_id -> "idle" | "invalid" | "no_gid" | "stub" | "not_submitted" | "forward" | "compensating" | "done" | "failed"
    sagaStep,       \* coordinator: order_id -> the next forward step to call
    sagaComp,       \* coordinator: order_id -> the next step to compensate (0 when none is left)
    sagaResp,       \* POST /api/orders: order_id -> the HTTP status answered (0 while there is none)
    xaInitialStock, \* 2PC products_inventory: product_id -> current_stock when the run starts
    xaProducts,     \* 2PC products_inventory: product_id -> committed current_stock
    xaMovements,    \* 2PC inventory_movements: order_id -> number of committed rows
    xaWallets,      \* 2PC wallets: user_id -> committed current_amount
    xaPayments,     \* 2PC payment_transactions: order_id -> number of committed rows
    xaOrders,       \* 2PC orders: order_id -> committed status ("" when there is no row)
    xaPhase,        \* global transaction: order_id -> "idle" | "invalid" | "no_gid" | "branches" | "committing" | "aborting" | "committed" | "aborted"
    xaNext,         \* global transaction: order_id -> the next branch to call
    xaPrepared,     \* global transaction: order_id -> the branches prepared and not yet finished
    xaResp,         \* POST /api/orders: order_id -> the HTTP status answered (0 while there is none)
    xaFailed,       \* global transaction: order_id -> the branch whose call failed, and why
    tx,             \* Saga participants: connection -> the database transaction it has open
    entity,         \* Saga Orders: the Order value in memory, the call that produced it, the row it read or wrote
    last            \* the last delivery: service, operation, order, result, HTTP status, state before it

tccVars == <<tccProducts, tccMovements, tccWallets, tccPayments, tccOrders, tccPhase, tccNext, tccResp>>

sagaVars == <<sagaProducts, sagaMovements, sagaWallets, sagaPayments, sagaOrders, sagaPhase, sagaStep, sagaComp,
             sagaResp>>
xaVars == <<xaInitialStock, xaProducts, xaMovements, xaWallets, xaPayments, xaOrders, xaPhase, xaNext, xaPrepared, xaResp, xaFailed>>

stepVars == <<tx, entity>>

vars == <<tccProducts, tccMovements, tccWallets, tccPayments, tccOrders, tccPhase, tccNext, tccResp,
          sagaProducts, sagaMovements, sagaWallets, sagaPayments, sagaOrders, sagaPhase, sagaStep, sagaComp,
          sagaResp,
          xaInitialStock, xaProducts, xaMovements, xaWallets, xaPayments, xaOrders, xaPhase, xaNext,
          xaPrepared, xaResp, xaFailed, tx, entity, last>>

\* net/http status codes the handlers answer with
HttpOK == 200

HttpAccepted == 202

HttpBadRequest == 400

HttpConflict == 409

HttpInternalServerError == 500

NoLast == [proto |-> "", svc |-> "", op |-> "", order |-> GhostOrder, res |-> "", status |-> 0, pre |-> <<>>]

\* ------------------------------------------------------------------------
\* TCC Inventory: schema, repository, use cases
\* ------------------------------------------------------------------------
\* variant: the table without its CHECK constraints
ProductRowUnchecked(row) == TRUE

\* CHECK (current_stock >= 0), CHECK (stock_available >= 0), check_available_lte_current
ProductRowCheck(row) ==
    /\ row.current_stock >= 0
    /\ row.stock_available >= 0
    /\ row.stock_available <= row.current_stock

\* SELECT ... FROM products_inventory WHERE product_id = $1 FOR UPDATE
TccGetProductForUpdate(products, productID) ==
    IF productID \in DOMAIN products
    THEN [err |-> "", row |-> products[productID]]
    ELSE [err |-> "not_found", row |-> [current_stock |-> 0, stock_available |-> 0]]

\* SELECT movement_id FROM inventory_movements WHERE order_id = $1 AND status = $2
GetInventoryMovementByOrderIDAndStatus(movements, orderID, status) ==
    \E i \in 1..Len(movements[orderID]) : movements[orderID][i] = status

\* SELECT status ... WHERE order_id = $1 ORDER BY created_at DESC LIMIT 1
GetInventoryMovementStatusByOrderID(movements, orderID) ==
    IF movements[orderID] = <<>> THEN "" ELSE movements[orderID][Len(movements[orderID])]

\* variant: the status update without the filter on status = 'pending'
UpdateAllRows(rows, to) ==
    [i \in 1..Len(rows) |-> to]

\* UPDATE inventory_movements SET status = to WHERE order_id = $1 AND status = 'pending'
UpdatePendingRows(rows, to) ==
    [i \in 1..Len(rows) |-> IF rows[i] = "pending" THEN to ELSE rows[i]]

\* variant: the reservation that takes the unit from both columns
TryReserveBothColumns(products, movements, productID, orderID) ==
    LET row == [products[productID] EXCEPT !.stock_available = @ - 1, !.current_stock = @ - 1]
    IN  IF ~ProductRowCheck(row)
        THEN [err |-> "db_error", products |-> products, movements |-> movements]
        ELSE IF movements[orderID] # <<>>
        THEN [err |-> "db_error", products |-> products, movements |-> movements]
        ELSE [err |-> "",
              products |-> [products EXCEPT ![productID] = row],
              movements |-> [movements EXCEPT ![orderID] = Append(@, "pending")]]

TryReserveStock(products, movements, productID, orderID) ==
    LET row == [products[productID] EXCEPT !.stock_available = @ - 1]
    IN  IF ~ProductRowCheck(row)
        THEN [err |-> "db_error", products |-> products, movements |-> movements]
        ELSE IF movements[orderID] # <<>>   \* UNIQUE (order_id)
        THEN [err |-> "db_error", products |-> products, movements |-> movements]
        ELSE [err |-> "",
              products |-> [products EXCEPT ![productID] = row],
              movements |-> [movements EXCEPT ![orderID] = Append(@, "pending")]]

ConfirmReserveStock(products, movements, productID, orderID) ==
    LET row == [products[productID] EXCEPT !.current_stock = @ - 1]
    IN  IF ~ProductRowCheck(row)
        THEN [err |-> "db_error", products |-> products, movements |-> movements]
        ELSE [err |-> "",
              products |-> [products EXCEPT ![productID] = row],
              movements |-> [movements EXCEPT ![orderID] = UpdatePendingRows(@, "completed")]]

\* variant: the Cancel that does not give the reserved unit back
CancelKeepsReservation(products, movements, productID, orderID) ==
    [err |-> "",
     products |-> products,
     movements |-> [movements EXCEPT ![orderID] = UpdatePendingRows(@, "rejected")]]

CancelReserveStock(products, movements, productID, orderID) ==
    LET row == [products[productID] EXCEPT !.stock_available = @ + 1]
    IN  IF ~ProductRowCheck(row)
        THEN [err |-> "db_error", products |-> products, movements |-> movements]
        ELSE [err |-> "",
              products |-> [products EXCEPT ![productID] = row],
              movements |-> [movements EXCEPT ![orderID] = UpdatePendingRows(@, "rejected")]]

\* a use case returns the result and the committed state; an error rolls back
InvResult(res, products, movements) ==
    [res |-> res, products |-> products, movements |-> movements]

TryDecreaseStock(products, movements, req) ==
    LET got == TccGetProductForUpdate(products, req.product_id)
    IN  IF got.err # "" THEN InvResult(got.err, products, movements)
        ELSE IF got.row.stock_available < 1 THEN InvResult("insufficient", products, movements)
        ELSE IF GetInventoryMovementByOrderIDAndStatus(movements, req.order_id, "pending")
        THEN InvResult("ok", products, movements)
        ELSE LET r == TryReserveStock(products, movements, req.product_id, req.order_id)
             IN  IF r.err # "" THEN InvResult(r.err, products, movements)
                 ELSE InvResult("ok", r.products, r.movements)

\* variant: the Confirm without the lookup of a completed row
ConfirmWithoutLookup(products, movements, req) ==
    LET got == TccGetProductForUpdate(products, req.product_id)
    IN  IF got.err # "" THEN InvResult(got.err, products, movements)
        ELSE LET r == ConfirmReserveStock(products, movements, req.product_id, req.order_id)
             IN  IF r.err # "" THEN InvResult(r.err, products, movements)
                 ELSE InvResult("ok", r.products, r.movements)

ConfirmDecreaseStock(products, movements, req) ==
    LET got == TccGetProductForUpdate(products, req.product_id)
    IN  IF got.err # "" THEN InvResult(got.err, products, movements)
        ELSE IF GetInventoryMovementByOrderIDAndStatus(movements, req.order_id, "completed")
        THEN InvResult("ok", products, movements)
        ELSE LET r == ConfirmReserveStock(products, movements, req.product_id, req.order_id)
             IN  IF r.err # "" THEN InvResult(r.err, products, movements)
                 ELSE InvResult("ok", r.products, r.movements)

\* variant: the Cancel that does not refuse a completed row
CancelDecreaseStockCompletedToo(products, movements, req) ==
    LET got == TccGetProductForUpdate(products, req.product_id)
        status == GetInventoryMovementStatusByOrderID(movements, req.order_id)
    IN  IF got.err # "" THEN InvResult(got.err, products, movements)
        ELSE IF status = "" THEN InvResult("ok", products, movements)
        ELSE IF status = "rejected" THEN InvResult("ok", products, movements)
        ELSE LET r == CancelReserveStock(products, movements, req.product_id, req.order_id)
             IN  IF r.err # "" THEN InvResult(r.err, products, movements)
                 ELSE InvResult("ok", r.products, r.movements)

CancelDecreaseStock(products, movements, req) ==
    LET got == TccGetProductForUpdate(products, req.product_id)
        status == GetInventoryMovementStatusByOrderID(movements, req.order_id)
    IN  IF got.err # "" THEN InvResult(got.err, products, movements)
        ELSE IF status = "" THEN InvResult("ok", products, movements)
        ELSE IF status = "rejected" THEN InvResult("ok", products, movements)
        ELSE IF status = "completed" THEN InvResult("conflict", products, movements)
        ELSE LET r == CancelReserveStock(products, movements, req.product_id, req.order_id)
             IN  IF r.err # "" THEN InvResult(r.err, products, movements)
                 ELSE InvResult("ok", r.products, r.movements)

\* ------------------------------------------------------------------------
\* TCC Payment: schema, repository, use cases
\* ------------------------------------------------------------------------
\* variant: a wallets table without check_available_lte_current
WalletRowUnchecked(row) ==
    /\ row.current_amount >= 0
    /\ row.available_amount >= 0

\* CHECK (current_amount >= 0), CHECK (available_amount >= 0), check_available_lte_current
WalletRowCheck(row) ==
    /\ row.current_amount >= 0
    /\ row.available_amount >= 0
    /\ row.available_amount <= row.current_amount

\* SELECT ... FROM wallets WHERE user_id = $1 FOR UPDATE
TccGetWalletForUpdate(wallets, userID) ==
    IF userID \in DOMAIN wallets
    THEN [err |-> "", row |-> wallets[userID]]
    ELSE [err |-> "not_found", row |-> [current_amount |-> 0, available_amount |-> 0]]

\* SELECT transaction_id FROM payment_transactions WHERE order_id = $1 AND status = $2
GetPaymentTransactionByOrderIDAndStatus(payments, orderID, status) ==
    \E i \in 1..Len(payments[orderID]) : payments[orderID][i].status = status

\* SELECT status FROM payment_transactions WHERE order_id = $1
GetPaymentTransactionStatusByOrderID(payments, orderID) ==
    IF payments[orderID] = <<>> THEN "" ELSE payments[orderID][1].status

\* UPDATE payment_transactions SET status = to WHERE order_id = $1 AND status = 'pending'
UpdatePendingPayments(rows, to) ==
    [i \in 1..Len(rows) |-> IF rows[i].status = "pending" THEN [rows[i] EXCEPT !.status = to] ELSE rows[i]]

TryReserveBalance(wallets, payments, userID, orderID, amount) ==
    LET row == [wallets[userID] EXCEPT !.available_amount = @ - amount]
    IN  IF ~WalletRowCheck(row)
        THEN [err |-> "db_error", wallets |-> wallets, payments |-> payments]
        ELSE IF payments[orderID] # <<>>   \* UNIQUE (order_id)
        THEN [err |-> "db_error", wallets |-> wallets, payments |-> payments]
        ELSE [err |-> "",
              wallets |-> [wallets EXCEPT ![userID] = row],
              payments |-> [payments EXCEPT ![orderID] =
                              Append(@, [status |-> "pending", amount |-> amount])]]

\* variant: the Confirm that leaves the ledger row pending
ConfirmDebitKeepsPending(wallets, payments, userID, orderID, amount) ==
    LET row == [wallets[userID] EXCEPT !.current_amount = @ - amount]
    IN  IF ~WalletRowCheck(row)
        THEN [err |-> "db_error", wallets |-> wallets, payments |-> payments]
        ELSE [err |-> "",
              wallets |-> [wallets EXCEPT ![userID] = row],
              payments |-> payments]


ConfirmDebit(wallets, payments, userID, orderID, amount) ==
    LET row == [wallets[userID] EXCEPT !.current_amount = @ - amount]
    IN  IF ~WalletRowCheck(row)
        THEN [err |-> "db_error", wallets |-> wallets, payments |-> payments]
        ELSE [err |-> "",
              wallets |-> [wallets EXCEPT ![userID] = row],
              payments |-> [payments EXCEPT ![orderID] = UpdatePendingPayments(@, "completed")]]

\* variant: the Cancel that gives back one unit whatever was reserved
CancelReleasesOneUnit(wallets, payments, userID, orderID, amount) ==
    LET row == [wallets[userID] EXCEPT !.available_amount = @ + 1]
    IN  IF ~WalletRowCheck(row)
        THEN [err |-> "db_error", wallets |-> wallets, payments |-> payments]
        ELSE [err |-> "",
              wallets |-> [wallets EXCEPT ![userID] = row],
              payments |-> [payments EXCEPT ![orderID] = UpdatePendingPayments(@, "rejected")]]

CancelReserveBalance(wallets, payments, userID, orderID, amount) ==
    LET row == [wallets[userID] EXCEPT !.available_amount = @ + amount]
    IN  IF ~WalletRowCheck(row)
        THEN [err |-> "db_error", wallets |-> wallets, payments |-> payments]
        ELSE [err |-> "",
              wallets |-> [wallets EXCEPT ![userID] = row],
              payments |-> [payments EXCEPT ![orderID] = UpdatePendingPayments(@, "rejected")]]

PayResult(res, wallets, payments) ==
    [res |-> res, wallets |-> wallets, payments |-> payments]

\* variant: the Try that commits on the error path, so the reservation made
\* before the ledger insert failed stays in the wallet row
TryDebitWalletNoRollback(wallets, payments, req) ==
    LET got == TccGetWalletForUpdate(wallets, req.user_id)
    IN  IF req.total_price <= 0 THEN PayResult("invalid", wallets, payments)
        ELSE IF got.err # "" THEN PayResult(got.err, wallets, payments)
        ELSE IF GetPaymentTransactionByOrderIDAndStatus(payments, req.order_id, "pending")
        THEN PayResult("ok", wallets, payments)
        ELSE IF got.row.available_amount < req.total_price
        THEN PayResult("insufficient", wallets, payments)
        ELSE LET r == TryReserveBalance(wallets, payments, req.user_id, req.order_id, req.total_price)
             IN  IF r.err # ""
                 THEN PayResult(r.err,
                                [wallets EXCEPT ![req.user_id].available_amount = @ - req.total_price],
                                payments)
                 ELSE PayResult("ok", r.wallets, r.payments)


TryDebitWallet(wallets, payments, req) ==
    LET got == TccGetWalletForUpdate(wallets, req.user_id)
    IN  IF req.total_price <= 0 THEN PayResult("invalid", wallets, payments)
        ELSE IF got.err # "" THEN PayResult(got.err, wallets, payments)
        ELSE IF GetPaymentTransactionByOrderIDAndStatus(payments, req.order_id, "pending")
        THEN PayResult("ok", wallets, payments)
        ELSE IF got.row.available_amount < req.total_price
        THEN PayResult("insufficient", wallets, payments)
        ELSE LET r == TryReserveBalance(wallets, payments, req.user_id, req.order_id, req.total_price)
             IN  IF r.err # "" THEN PayResult(r.err, wallets, payments)
                 ELSE PayResult("ok", r.wallets, r.payments)

ConfirmDebitWallet(wallets, payments, req) ==
    LET got == TccGetWalletForUpdate(wallets, req.user_id)
    IN  IF got.err # "" THEN PayResult(got.err, wallets, payments)
        ELSE IF GetPaymentTransactionByOrderIDAndStatus(payments, req.order_id, "completed")
        THEN PayResult("ok", wallets, payments)
        ELSE LET r == ConfirmDebit(wallets, payments, req.user_id, req.order_id, req.total_price)
             IN  IF r.err # "" THEN PayResult(r.err, wallets, payments)
                 ELSE PayResult("ok", r.wallets, r.payments)

\* variant: the Cancel that records a rejected row for an order it never saw
CancelDebitWalletLeavesRow(wallets, payments, req) ==
    LET got == TccGetWalletForUpdate(wallets, req.user_id)
        status == GetPaymentTransactionStatusByOrderID(payments, req.order_id)
    IN  IF got.err # "" THEN PayResult(got.err, wallets, payments)
        ELSE IF status = ""
        THEN PayResult("ok", wallets,
                       [payments EXCEPT ![req.order_id] =
                            <<[status |-> "rejected", amount |-> req.total_price]>>])
        ELSE IF status = "rejected" THEN PayResult("ok", wallets, payments)
        ELSE IF status = "completed" THEN PayResult("conflict", wallets, payments)
        ELSE LET r == CancelReserveBalance(wallets, payments, req.user_id, req.order_id, req.total_price)
             IN  IF r.err # "" THEN PayResult(r.err, wallets, payments)
                 ELSE PayResult("ok", r.wallets, r.payments)


CancelDebitWallet(wallets, payments, req) ==
    LET got == TccGetWalletForUpdate(wallets, req.user_id)
        status == GetPaymentTransactionStatusByOrderID(payments, req.order_id)
    IN  IF got.err # "" THEN PayResult(got.err, wallets, payments)
        ELSE IF status = "" THEN PayResult("ok", wallets, payments)
        ELSE IF status = "rejected" THEN PayResult("ok", wallets, payments)
        ELSE IF status = "completed" THEN PayResult("conflict", wallets, payments)
        ELSE LET r == CancelReserveBalance(wallets, payments, req.user_id, req.order_id, req.total_price)
             IN  IF r.err # "" THEN PayResult(r.err, wallets, payments)
                 ELSE PayResult("ok", r.wallets, r.payments)

\* ------------------------------------------------------------------------
\* TCC Orders: repository and use cases
\* ------------------------------------------------------------------------
\* INSERT INTO orders ...; order_id is the PRIMARY KEY
TccCreateOrder(orders, orderID, status) ==
    IF orders[orderID] # ""
    THEN [res |-> "db_error", orders |-> orders]
    ELSE [res |-> "ok", orders |-> [orders EXCEPT ![orderID] = status]]

\* UPDATE orders SET status = $1 WHERE order_id = $2
TccUpdateOrderStatus(orders, orderID, status) ==
    [res |-> "ok",
     orders |-> IF orders[orderID] = "" THEN orders ELSE [orders EXCEPT ![orderID] = status]]

TryCreateOrder(orders, req) == TccCreateOrder(orders, req.order_id, "pending")

ConfirmCreateOrder(orders, req) == TccUpdateOrderStatus(orders, req.order_id, "completed")

CancelCreateOrder(orders, req) == TccUpdateOrderStatus(orders, req.order_id, "cancelled")

\* ------------------------------------------------------------------------
\* TCC: delivery of one phase call to one participant handler
\* ------------------------------------------------------------------------
TccCurrent(svc, o) ==
    IF svc = "inventory" /\ ProductOf(o) \in DOMAIN tccProducts
        THEN tccProducts[ProductOf(o)].current_stock
    ELSE IF svc = "payment" /\ UserOf(o) \in DOMAIN tccWallets
        THEN tccWallets[UserOf(o)].current_amount
    ELSE 0

TccAvailable(svc, o) ==
    IF svc = "inventory" /\ ProductOf(o) \in DOMAIN tccProducts
        THEN tccProducts[ProductOf(o)].stock_available
    ELSE IF svc = "payment" /\ UserOf(o) \in DOMAIN tccWallets
        THEN tccWallets[UserOf(o)].available_amount
    ELSE 0

\* the statuses of the ledger rows of one order, oldest first
TccLedger(svc, o) ==
    IF svc = "inventory" THEN tccMovements[o]
    ELSE IF svc = "payment" THEN [i \in 1..Len(tccPayments[o]) |-> tccPayments[o][i].status]
    ELSE IF tccOrders[o] = "" THEN <<>> ELSE <<tccOrders[o]>>

TccSnapshot(svc, o) ==
    [current |-> TccCurrent(svc, o), available |-> TccAvailable(svc, o), ledger |-> TccLedger(svc, o)]

\* every TCC handler: 200 when the use case returns nil, 500 for any error
TccHandlerStatus(res) == IF res = "ok" THEN HttpOK ELSE HttpInternalServerError

TccLast(svc, op, o, res) ==
    [proto |-> "tcc", svc |-> svc, op |-> op, order |-> o, res |-> res,
     status |-> TccHandlerStatus(res), pre |-> TccSnapshot(svc, o)]

HandleTryDecreaseStock(o) ==
    LET r == TryDecreaseStock(tccProducts, tccMovements, Payload(o))
    IN  /\ tccProducts' = r.products
        /\ tccMovements' = r.movements
        /\ last' = TccLast("inventory", "try", o, r.res)
        /\ UNCHANGED <<tccWallets, tccPayments, tccOrders>>

HandleConfirmDecreaseStock(o) ==
    LET r == ConfirmDecreaseStock(tccProducts, tccMovements, Payload(o))
    IN  /\ tccProducts' = r.products
        /\ tccMovements' = r.movements
        /\ last' = TccLast("inventory", "confirm", o, r.res)
        /\ UNCHANGED <<tccWallets, tccPayments, tccOrders>>

HandleCancelDecreaseStock(o) ==
    LET r == CancelDecreaseStock(tccProducts, tccMovements, Payload(o))
    IN  /\ tccProducts' = r.products
        /\ tccMovements' = r.movements
        /\ last' = TccLast("inventory", "cancel", o, r.res)
        /\ UNCHANGED <<tccWallets, tccPayments, tccOrders>>

HandleTryDebitWallet(o) ==
    LET r == TryDebitWallet(tccWallets, tccPayments, Payload(o))
    IN  /\ tccWallets' = r.wallets
        /\ tccPayments' = r.payments
        /\ last' = TccLast("payment", "try", o, r.res)
        /\ UNCHANGED <<tccProducts, tccMovements, tccOrders>>

HandleConfirmDebitWallet(o) ==
    LET r == ConfirmDebitWallet(tccWallets, tccPayments, Payload(o))
    IN  /\ tccWallets' = r.wallets
        /\ tccPayments' = r.payments
        /\ last' = TccLast("payment", "confirm", o, r.res)
        /\ UNCHANGED <<tccProducts, tccMovements, tccOrders>>

HandleCancelDebitWallet(o) ==
    LET r == CancelDebitWallet(tccWallets, tccPayments, Payload(o))
    IN  /\ tccWallets' = r.wallets
        /\ tccPayments' = r.payments
        /\ last' = TccLast("payment", "cancel", o, r.res)
        /\ UNCHANGED <<tccProducts, tccMovements, tccOrders>>

HandleTryCreateOrder(o) ==
    LET r == TryCreateOrder(tccOrders, Payload(o))
    IN  /\ tccOrders' = r.orders
        /\ last' = TccLast("orders", "try", o, r.res)
        /\ UNCHANGED <<tccProducts, tccMovements, tccWallets, tccPayments>>

HandleConfirmCreateOrder(o) ==
    LET r == ConfirmCreateOrder(tccOrders, Payload(o))
    IN  /\ tccOrders' = r.orders
        /\ last' = TccLast("orders", "confirm", o, r.res)
        /\ UNCHANGED <<tccProducts, tccMovements, tccWallets, tccPayments>>

HandleCancelCreateOrder(o) ==
    LET r == CancelCreateOrder(tccOrders, Payload(o))
    IN  /\ tccOrders' = r.orders
        /\ last' = TccLast("orders", "cancel", o, r.res)
        /\ UNCHANGED <<tccProducts, tccMovements, tccWallets, tccPayments>>

\* ------------------------------------------------------------------------
\* TCC: the global transaction of one order.  Branches are called in the
\* order Orders (1), Inventory (2), Payment (3); Confirm goes to every
\* branch once every Try succeeded, Cancel to every registered branch
\* otherwise; every phase call is delivered at least once.
\* ------------------------------------------------------------------------
TccBranches == 3

\* POST /api/orders: the adapter starts the global transaction of a new order
TccBegin(o) ==
    /\ tccPhase[o] = "idle"
    /\ tccPhase' = [tccPhase EXCEPT ![o] = "try"]
    /\ UNCHANGED <<tccProducts, tccMovements, tccWallets, tccPayments, tccOrders, tccNext,
                   tccResp, last>>
    /\ UNCHANGED <<sagaVars, xaVars, stepVars>>

\* POST /api/orders while the coordinator cannot be reached: MustGenGid
\* panics, the deferred recover swallows the panic and CreateOrderTCC returns
\* the zero values of its results, so the order id it generated is gone and
\* the error is nil.  The use case takes a new order id f, inserts the
\* cancelled order under it and panics on err.Error(); the recovery
\* middleware answers 500.
TccGenGidPanics(o) ==
    /\ tccPhase[o] = "idle"
    /\ \E f \in AllOrders \ {o} :
           /\ tccPhase[f] = "idle"
           /\ tccOrders[f] = ""
           /\ tccOrders' = TccCreateOrder(tccOrders, f, "cancelled").orders
           /\ tccPhase' = [tccPhase EXCEPT ![o] = "no_gid", ![f] = "stub"]
           /\ last' = [NoLast EXCEPT !.proto = "tcc", !.svc = "orders", !.op = "gid", !.order = o,
                                     !.res = "panic", !.status = HttpInternalServerError,
                                     !.pre = [stub |-> f]]
    /\ tccResp' = [tccResp EXCEPT ![o] = HttpInternalServerError]
    /\ UNCHANGED <<tccProducts, tccMovements, tccWallets, tccPayments, tccNext>>
    /\ UNCHANGED <<sagaVars, xaVars, stepVars>>

\* the coordinator state after the Try of branch b answered; once the Try of
\* the last branch succeeded the adapter submits and the caller gets 202
TccAfterTry(b, o) ==
    IF tccPhase[o] = "try" /\ b = tccNext[o]
    THEN IF last'.res = "ok"
         THEN /\ tccNext' = [tccNext EXCEPT ![o] = b + 1]
              /\ tccPhase' = [tccPhase EXCEPT ![o] = IF b = TccBranches THEN "confirming" ELSE "try"]
              /\ tccResp' = [tccResp EXCEPT ![o] = IF b = TccBranches THEN HttpAccepted ELSE @]
         ELSE /\ tccPhase' = [tccPhase EXCEPT ![o] = "cancelling"]
              /\ UNCHANGED <<tccNext, tccResp>>
    ELSE UNCHANGED <<tccPhase, tccNext, tccResp>>

TccCanTry(b, o) == tccPhase[o] # "idle" /\ b <= tccNext[o]

TccTryOrders(o) ==
    /\ TccCanTry(1, o)
    /\ HandleTryCreateOrder(o)
    /\ TccAfterTry(1, o)
    /\ UNCHANGED <<sagaVars, xaVars, stepVars>>

TccTryInventory(o) ==
    /\ TccCanTry(2, o)
    /\ HandleTryDecreaseStock(o)
    /\ TccAfterTry(2, o)
    /\ UNCHANGED <<sagaVars, xaVars, stepVars>>

TccTryPayment(o) ==
    /\ TccCanTry(3, o)
    /\ HandleTryDebitWallet(o)
    /\ TccAfterTry(3, o)
    /\ UNCHANGED <<sagaVars, xaVars, stepVars>>

\* the branch-registration callback fails for a reason other than a Try answer
TccAbort(o) ==
    /\ tccPhase[o] = "try"
    /\ tccPhase' = [tccPhase EXCEPT ![o] = "cancelling"]
    /\ UNCHANGED <<tccProducts, tccMovements, tccWallets, tccPayments, tccOrders, tccNext,
                   tccResp, last>>
    /\ UNCHANGED <<sagaVars, xaVars, stepVars>>

\* variant: the failed registration that writes no order row
TccFailedOrderNoInsert(o) ==
    /\ tccPhase[o] = "cancelling"
    /\ tccResp[o] = 0
    /\ tccResp' = [tccResp EXCEPT ![o] = HttpInternalServerError]
    /\ last' = [NoLast EXCEPT !.proto = "tcc", !.svc = "orders", !.op = "failed", !.order = o,
                              !.res = "ok", !.status = HttpInternalServerError,
                              !.pre = [current |-> 0, available |-> 0, ledger |-> TccLedger("orders", o)]]
    /\ UNCHANGED <<tccProducts, tccMovements, tccWallets, tccPayments, tccOrders, tccPhase, tccNext>>
    /\ UNCHANGED <<sagaVars, xaVars, stepVars>>

\* the registration returned an error: the use case inserts an order row
\* with status cancelled under the order id of the attempt, ignores the
\* result of the insert, and the handler answers 500
TccFailedOrder(o) ==
    /\ tccPhase[o] = "cancelling"
    /\ tccResp[o] = 0
    /\ tccOrders' = TccCreateOrder(tccOrders, o, "cancelled").orders
    /\ tccResp' = [tccResp EXCEPT ![o] = HttpInternalServerError]
    /\ last' = [NoLast EXCEPT !.proto = "tcc", !.svc = "orders", !.op = "failed", !.order = o,
                              !.res = TccCreateOrder(tccOrders, o, "cancelled").res,
                              !.status = HttpInternalServerError,
                              !.pre = [current |-> 0, available |-> 0, ledger |-> TccLedger("orders", o)]]
    /\ UNCHANGED <<tccProducts, tccMovements, tccWallets, tccPayments, tccPhase, tccNext>>
    /\ UNCHANGED <<sagaVars, xaVars, stepVars>>

TccCanConfirm(o) == tccPhase[o] = "confirming"

TccConfirmOrders(o) ==
    /\ TccCanConfirm(o)
    /\ HandleConfirmCreateOrder(o)
    /\ UNCHANGED <<tccPhase, tccNext, tccResp>>
    /\ UNCHANGED <<sagaVars, xaVars, stepVars>>

TccConfirmInventory(o) ==
    /\ TccCanConfirm(o)
    /\ HandleConfirmDecreaseStock(o)
    /\ UNCHANGED <<tccPhase, tccNext, tccResp>>
    /\ UNCHANGED <<sagaVars, xaVars, stepVars>>

TccConfirmPayment(o) ==
    /\ TccCanConfirm(o)
    /\ HandleConfirmDebitWallet(o)
    /\ UNCHANGED <<tccPhase, tccNext, tccResp>>
    /\ UNCHANGED <<sagaVars, xaVars, stepVars>>

\* variant: Cancel reaches the Orders branch alone
TccCanCancelOrdersOnly(b, o) == tccPhase[o] = "cancelling" /\ b <= tccNext[o] /\ b = 1

\* Cancel reaches every branch that was registered, whether or not its Try arrived
TccCanCancel(b, o) == tccPhase[o] = "cancelling" /\ b <= tccNext[o]

TccCancelOrders(o) ==
    /\ TccCanCancel(1, o)
    /\ HandleCancelCreateOrder(o)
    /\ UNCHANGED <<tccPhase, tccNext, tccResp>>
    /\ UNCHANGED <<sagaVars, xaVars, stepVars>>

TccCancelInventory(o) ==
    /\ TccCanCancel(2, o)
    /\ HandleCancelDecreaseStock(o)
    /\ UNCHANGED <<tccPhase, tccNext, tccResp>>
    /\ UNCHANGED <<sagaVars, xaVars, stepVars>>

TccCancelPayment(o) ==
    /\ TccCanCancel(3, o)
    /\ HandleCancelDebitWallet(o)
    /\ UNCHANGED <<tccPhase, tccNext, tccResp>>
    /\ UNCHANGED <<sagaVars, xaVars, stepVars>>

TccNext ==
    \E o \in OrderIds :
        \/ TccBegin(o)
        \/ TccGenGidPanics(o)
        \/ TccTryOrders(o)
        \/ TccTryInventory(o)
        \/ TccTryPayment(o)
        \/ TccAbort(o)
        \/ TccFailedOrder(o)
        \/ TccConfirmOrders(o)
        \/ TccConfirmInventory(o)
        \/ TccConfirmPayment(o)
        \/ TccCancelOrders(o)
        \/ TccCancelInventory(o)
        \/ TccCancelPayment(o)

\* the TCC Inventory and Payment participants under any deliveries in any order
TccFreeTryInventory(o) ==
    /\ HandleTryDecreaseStock(o)
    /\ UNCHANGED <<tccPhase, tccNext, tccResp>>
    /\ UNCHANGED <<sagaVars, xaVars, stepVars>>

TccFreeConfirmInventory(o) ==
    /\ HandleConfirmDecreaseStock(o)
    /\ UNCHANGED <<tccPhase, tccNext, tccResp>>
    /\ UNCHANGED <<sagaVars, xaVars, stepVars>>

TccFreeCancelInventory(o) ==
    /\ HandleCancelDecreaseStock(o)
    /\ UNCHANGED <<tccPhase, tccNext, tccResp>>
    /\ UNCHANGED <<sagaVars, xaVars, stepVars>>

TccFreeTryPayment(o) ==
    /\ HandleTryDebitWallet(o)
    /\ UNCHANGED <<tccPhase, tccNext, tccResp>>
    /\ UNCHANGED <<sagaVars, xaVars, stepVars>>

TccFreeConfirmPayment(o) ==
    /\ HandleConfirmDebitWallet(o)
    /\ UNCHANGED <<tccPhase, tccNext, tccResp>>
    /\ UNCHANGED <<sagaVars, xaVars, stepVars>>

TccFreeCancelPayment(o) ==
    /\ HandleCancelDebitWallet(o)
    /\ UNCHANGED <<tccPhase, tccNext, tccResp>>
    /\ UNCHANGED <<sagaVars, xaVars, stepVars>>

TccFreeNext ==
    \E o \in AllOrders :
        \/ TccFreeTryInventory(o)
        \/ TccFreeConfirmInventory(o)
        \/ TccFreeCancelInventory(o)
        \/ TccFreeTryPayment(o)
        \/ TccFreeConfirmPayment(o)
        \/ TccFreeCancelPayment(o)

\* ------------------------------------------------------------------------
\* Saga Inventory: schema, repository, use cases
\* ------------------------------------------------------------------------
\* SELECT ... FROM products_inventory WHERE id = $1 FOR UPDATE
SagaGetProductForUpdate(products, productID) ==
    IF productID \in DOMAIN products
    THEN [err |-> "", current_stock |-> products[productID]]
    ELSE [err |-> "no_rows", current_stock |-> 0]

\* SELECT EXISTS(SELECT 1 FROM inventory_movements WHERE order_id = $1 AND movement_type = $2)
GetMovementByOrderIDAndType(movements, orderID, movementType) ==
    \E i \in 1..Len(movements[orderID]) : movements[orderID][i] = movementType

\* UPDATE current_stock (CHECK current_stock >= 0), then INSERT the movement
\* (UNIQUE INDEX on (order_id, movement_type))
UpdateStockAndInsertMovement(products, movements, productID, orderID, delta, movementType) ==
    IF products[productID] + delta < 0
    THEN [err |-> "db_error", products |-> products, movements |-> movements]
    ELSE IF GetMovementByOrderIDAndType(movements, orderID, movementType)
    THEN [err |-> "db_error", products |-> products, movements |-> movements]
    ELSE [err |-> "",
          products |-> [products EXCEPT ![productID] = @ + delta],
          movements |-> [movements EXCEPT ![orderID] = Append(@, movementType)]]

RepoDecreaseStock(products, movements, productID, orderID) ==
    UpdateStockAndInsertMovement(products, movements, productID, orderID, -1, "decreased")

\* variant: the compensation that records its row and leaves the stock as it is
RepoIncreaseStockRowOnly(products, movements, productID, orderID) ==
    UpdateStockAndInsertMovement(products, movements, productID, orderID, 0, "increased")

RepoIncreaseStock(products, movements, productID, orderID) ==
    UpdateStockAndInsertMovement(products, movements, productID, orderID, 1, "increased")

\* variant: the forward step without the lookup of its own ledger row
DecreaseStockNoLookup(products, movements, req) ==
    LET got == SagaGetProductForUpdate(products, req.product_id)
    IN  IF got.err # "" THEN InvResult(got.err, products, movements)
        ELSE IF got.current_stock < 1 THEN InvResult("insufficient", products, movements)
        ELSE LET r == RepoDecreaseStock(products, movements, req.product_id, req.order_id)
             IN  IF r.err # "" THEN InvResult(r.err, products, movements)
                 ELSE InvResult("ok", r.products, r.movements)

DecreaseStock(products, movements, req) ==
    LET got == SagaGetProductForUpdate(products, req.product_id)
    IN  IF got.err # "" THEN InvResult(got.err, products, movements)
        ELSE IF GetMovementByOrderIDAndType(movements, req.order_id, "decreased")
        THEN InvResult("ok", products, movements)
        ELSE IF got.current_stock < 1 THEN InvResult("insufficient", products, movements)
        ELSE LET r == RepoDecreaseStock(products, movements, req.product_id, req.order_id)
             IN  IF r.err # "" THEN InvResult(r.err, products, movements)
                 ELSE InvResult("ok", r.products, r.movements)

\* variant: the compensation that gives back only what a forward row took
CompensateStockAfterForwardOnly(products, movements, req) ==
    LET got == SagaGetProductForUpdate(products, req.product_id)
    IN  IF got.err # "" THEN InvResult(got.err, products, movements)
        ELSE IF GetMovementByOrderIDAndType(movements, req.order_id, "increased")
        THEN InvResult("ok", products, movements)
        ELSE IF ~GetMovementByOrderIDAndType(movements, req.order_id, "decreased")
        THEN InvResult("ok", products, movements)
        ELSE LET r == RepoIncreaseStock(products, movements, req.product_id, req.order_id)
             IN  IF r.err # "" THEN InvResult(r.err, products, movements)
                 ELSE InvResult("ok", r.products, r.movements)

CompensateStock(products, movements, req) ==
    LET got == SagaGetProductForUpdate(products, req.product_id)
    IN  IF got.err # "" THEN InvResult(got.err, products, movements)
        ELSE IF GetMovementByOrderIDAndType(movements, req.order_id, "increased")
        THEN InvResult("ok", products, movements)
        ELSE LET r == RepoIncreaseStock(products, movements, req.product_id, req.order_id)
             IN  IF r.err # "" THEN InvResult(r.err, products, movements)
                 ELSE InvResult("ok", r.products, r.movements)

\* ------------------------------------------------------------------------
\* Saga Payments: schema, repository, use cases
\* ------------------------------------------------------------------------
\* SELECT ... FROM wallets WHERE user_id = $1 FOR UPDATE
SagaGetWalletForUpdate(wallets, userID) ==
    IF userID \in DOMAIN wallets
    THEN [err |-> "", current_amount |-> wallets[userID]]
    ELSE [err |-> "no_rows", current_amount |-> 0]

\* SELECT EXISTS(SELECT 1 FROM user_payments WHERE order_id = $1 AND type = $2)
GetPaymentByOrderIDAndType(payments, orderID, paymentType) ==
    \E i \in 1..Len(payments[orderID]) : payments[orderID][i].type = paymentType

\* UPDATE current_amount (CHECK current_amount >= 0), then INSERT the payment
\* (CHECK amount > 0, UNIQUE INDEX on (order_id, type))
UpdateWalletAndInsertPayment(wallets, payments, userID, orderID, delta, amount, paymentType) ==
    IF wallets[userID] + delta < 0
    THEN [err |-> "db_error", wallets |-> wallets, payments |-> payments]
    ELSE IF amount <= 0 \/ GetPaymentByOrderIDAndType(payments, orderID, paymentType)
    THEN [err |-> "db_error", wallets |-> wallets, payments |-> payments]
    ELSE [err |-> "",
          wallets |-> [wallets EXCEPT ![userID] = @ + delta],
          payments |-> [payments EXCEPT ![orderID] =
                          Append(@, [type |-> paymentType, amount |-> amount])]]

DebitWallet(wallets, payments, userID, orderID, amount) ==
    UpdateWalletAndInsertPayment(wallets, payments, userID, orderID, -amount, amount, "debit")

\* variant: the credit that gives back one unit whatever was debited
CreditWalletOneUnit(wallets, payments, userID, orderID, amount) ==
    UpdateWalletAndInsertPayment(wallets, payments, userID, orderID, 1, amount, "credit")


CreditWallet(wallets, payments, userID, orderID, amount) ==
    UpdateWalletAndInsertPayment(wallets, payments, userID, orderID, amount, amount, "credit")

\* variant: the debit without the comparison of the balance with the amount
DebitPaymentNoFundsCheck(wallets, payments, req) ==
    LET got == SagaGetWalletForUpdate(wallets, req.user_id)
    IN  IF got.err # "" THEN PayResult(got.err, wallets, payments)
        ELSE IF GetPaymentByOrderIDAndType(payments, req.order_id, "debit")
        THEN PayResult("ok", wallets, payments)
        ELSE LET r == DebitWallet(wallets, payments, req.user_id, req.order_id, req.amount)
             IN  IF r.err # "" THEN PayResult(r.err, wallets, payments)
                 ELSE PayResult("ok", r.wallets, r.payments)

DebitPayment(wallets, payments, req) ==
    LET got == SagaGetWalletForUpdate(wallets, req.user_id)
    IN  IF got.err # "" THEN PayResult(got.err, wallets, payments)
        ELSE IF GetPaymentByOrderIDAndType(payments, req.order_id, "debit")
        THEN PayResult("ok", wallets, payments)
        ELSE IF got.current_amount < req.amount THEN PayResult("insufficient", wallets, payments)
        ELSE LET r == DebitWallet(wallets, payments, req.user_id, req.order_id, req.amount)
             IN  IF r.err # "" THEN PayResult(r.err, wallets, payments)
                 ELSE PayResult("ok", r.wallets, r.payments)

CompensatePayment(wallets, payments, req) ==
    LET got == SagaGetWalletForUpdate(wallets, req.user_id)
    IN  IF got.err # "" THEN PayResult(got.err, wallets, payments)
        ELSE IF GetPaymentByOrderIDAndType(payments, req.order_id, "credit")
        THEN PayResult("ok", wallets, payments)
        ELSE LET r == CreditWallet(wallets, payments, req.user_id, req.order_id, req.amount)
             IN  IF r.err # "" THEN PayResult(r.err, wallets, payments)
                 ELSE PayResult("ok", r.wallets, r.payments)

\* ------------------------------------------------------------------------
\* Saga Orders: entity, repository, use cases
\* ------------------------------------------------------------------------
OrderStatusPending == "pending"
OrderStatusCompleted == "completed"
OrderStatusRejected == "rejected"

\* NewOrder: the Order value of a request, in status pending
NewOrder(id, userID, productID, amount) ==
    [id |-> id, user_id |-> userID, product_id |-> productID, amount |-> amount,
     status |-> OrderStatusPending]

\* variant: Fail without the test of the current status
FailAnyStatus(o) ==
    [order |-> [o EXCEPT !.status = OrderStatusRejected], err |-> ""]

\* Order.Fail: pending -> rejected, an error for every other status
Fail(o) ==
    IF o.status # OrderStatusPending
    THEN [order |-> o, err |-> "only pending orders can be marked as failed"]
    ELSE [order |-> [o EXCEPT !.status = OrderStatusRejected], err |-> ""]

\* INSERT INTO orders ...; id is the PRIMARY KEY
SagaRepoCreateOrder(orders, orderID, status) ==
    IF orders[orderID] # ""
    THEN [res |-> "db_error", orders |-> orders]
    ELSE [res |-> "ok", orders |-> [orders EXCEPT ![orderID] = status]]

\* UPDATE orders SET status = $1 WHERE id = $2 AND status != $1
SagaUpdateOrderStatus(orders, orderID, status) ==
    [res |-> "ok",
     orders |-> IF orders[orderID] # "" /\ orders[orderID] # status
                THEN [orders EXCEPT ![orderID] = status] ELSE orders]

SagaCreateOrder(orders, req) ==
    SagaRepoCreateOrder(orders, req.order_id,
                        NewOrder(req.order_id, req.user_id, req.product_id, req.amount).status)

\* CreateFailedOrder: NewOrder, Fail, INSERT of the order as Fail left it
CreateFailedOrder(orders, req, orderID) ==
    LET f == Fail(NewOrder(orderID, req.user_id, req.product_id, req.amount))
    IN  IF f.err # "" THEN [res |-> "entity_error", orders |-> orders, order |-> f.order]
        ELSE [res |-> SagaRepoCreateOrder(orders, orderID, f.order.status).res,
              orders |-> SagaRepoCreateOrder(orders, orderID, f.order.status).orders,
              order |-> f.order]

CompleteOrder(orders, req) == SagaUpdateOrderStatus(orders, req.order_id, OrderStatusCompleted)

CancelOrder(orders, req) == SagaUpdateOrderStatus(orders, req.order_id, OrderStatusRejected)

\* ------------------------------------------------------------------------
\* Saga: delivery of one step to one participant handler
\* ------------------------------------------------------------------------
SagaCurrent(svc, o) ==
    IF svc = "inventory" /\ ProductOf(o) \in DOMAIN sagaProducts THEN sagaProducts[ProductOf(o)]
    ELSE IF svc = "payments" /\ UserOf(o) \in DOMAIN sagaWallets THEN sagaWallets[UserOf(o)]
    ELSE 0

\* the types of the ledger rows of one order, oldest first (for Orders: the status)
SagaLedger(svc, o) ==
    IF svc = "inventory" THEN sagaMovements[o]
    ELSE IF svc = "payments" THEN [i \in 1..Len(sagaPayments[o]) |-> sagaPayments[o][i].type]
    ELSE IF sagaOrders[o] = "" THEN <<>> ELSE <<sagaOrders[o]>>

\* err.Error() of the inventory use case, as a sequence of words. The lock
\* query wraps pgx.ErrNoRows; a failed statement is wrapped by the repository.
InventoryErrorText(op, res) ==
    IF res = "insufficient" THEN <<"insufficient", "stock", "for", "product">>
    ELSE IF res = "no_rows"
    THEN <<"failed", "to", "get", "product", "with", "lock:", "no", "rows", "in", "result", "set">>
    ELSE IF op = "forward" THEN <<"failed", "to", "decrease", "stock:", "ERROR">>
    ELSE <<"failed", "to", "increase", "stock:", "ERROR">>

\* err.Error() of the payments use case, as a sequence of words
PaymentsErrorText(op, res) ==
    IF res = "insufficient" THEN <<"insufficient", "funds">>
    ELSE IF res = "no_rows"
    THEN <<"failed", "to", "get", "wallet", "with", "lock:", "no", "rows", "in", "result", "set">>
    ELSE IF op = "forward" THEN <<"failed", "to", "debit", "wallet:", "ERROR">>
    ELSE <<"failed", "to", "credit", "wallet:", "ERROR">>

\* containsAny: some substr occurs in s at some offset
containsAny(s, substrs) ==
    \E substr \in substrs :
        /\ Len(s) >= Len(substr)
        /\ \E i \in 0..(Len(s) - Len(substr)) : SubSeq(s, i + 1, i + Len(substr)) = substr

\* InventoryHandler.DecreaseStock: the status it answers with
DecreaseStockStatus(res) ==
    IF res = "ok" THEN HttpOK
    ELSE IF containsAny(InventoryErrorText("forward", res),
                        {<<"product", "not", "found">>, <<"insufficient", "stock">>})
    THEN HttpBadRequest
    ELSE HttpInternalServerError

\* InventoryHandler.CompensateStock: the status it answers with
CompensateStockStatus(res) ==
    IF res = "ok" THEN HttpOK
    ELSE IF containsAny(InventoryErrorText("compensate", res),
                        {<<"version", "conflict">>, <<"max", "retries", "exceeded">>})
    THEN HttpConflict
    ELSE HttpInternalServerError

\* PaymentHandler.DebitPayment: the status it answers with
DebitPaymentStatus(res) ==
    IF res = "ok" THEN HttpOK
    ELSE IF containsAny(PaymentsErrorText("forward", res),
                        {<<"wallet", "not", "found">>, <<"insufficient", "funds">>})
    THEN HttpBadRequest
    ELSE HttpInternalServerError

\* PaymentHandler.CompensatePayment: the status it answers with
CompensatePaymentStatus(res) ==
    IF res = "ok" THEN HttpOK
    ELSE IF containsAny(PaymentsErrorText("compensate", res),
                        {<<"version", "conflict">>, <<"max", "retries", "exceeded">>})
    THEN HttpConflict
    ELSE HttpInternalServerError

\* the Orders handlers: 200 when the use case returns nil, 500 for any error
SagaOrdersStatus(res) == IF res = "ok" THEN HttpOK ELSE HttpInternalServerError

SagaHandlerStatus(svc, op, res) ==
    IF svc = "inventory"
    THEN (IF op = "forward" THEN DecreaseStockStatus(res) ELSE CompensateStockStatus(res))
    ELSE IF svc = "payments"
    THEN (IF op = "forward" THEN DebitPaymentStatus(res) ELSE CompensatePaymentStatus(res))
    ELSE SagaOrdersStatus(res)

SagaLast(svc, op, o, res) ==
    [proto |-> "saga", svc |-> svc, op |-> op, order |-> o, res |-> res,
     status |-> SagaHandlerStatus(svc, op, res),
     pre |-> [current |-> SagaCurrent(svc, o), available |-> 0, ledger |-> SagaLedger(svc, o)]]

HandleDecreaseStock(o) ==
    LET r == DecreaseStock(sagaProducts, sagaMovements, Payload(o))
    IN  /\ sagaProducts' = r.products
        /\ sagaMovements' = r.movements
        /\ last' = SagaLast("inventory", "forward", o, r.res)
        /\ UNCHANGED <<sagaWallets, sagaPayments, sagaOrders>>

HandleCompensateStock(o) ==
    LET r == CompensateStock(sagaProducts, sagaMovements, Payload(o))
    IN  /\ sagaProducts' = r.products
        /\ sagaMovements' = r.movements
        /\ last' = SagaLast("inventory", "compensate", o, r.res)
        /\ UNCHANGED <<sagaWallets, sagaPayments, sagaOrders>>

HandleDebitPayment(o) ==
    LET r == DebitPayment(sagaWallets, sagaPayments, Payload(o))
    IN  /\ sagaWallets' = r.wallets
        /\ sagaPayments' = r.payments
        /\ last' = SagaLast("payments", "forward", o, r.res)
        /\ UNCHANGED <<sagaProducts, sagaMovements, sagaOrders>>

HandleCompensatePayment(o) ==
    LET r == CompensatePayment(sagaWallets, sagaPayments, Payload(o))
    IN  /\ sagaWallets' = r.wallets
        /\ sagaPayments' = r.payments
        /\ last' = SagaLast("payments", "compensate", o, r.res)
        /\ UNCHANGED <<sagaProducts, sagaMovements, sagaOrders>>

HandleCreateOrder(o) ==
    LET r == SagaCreateOrder(sagaOrders, Payload(o))
    IN  /\ sagaOrders' = r.orders
        /\ last' = SagaLast("orders", "forward", o, r.res)
        /\ UNCHANGED <<sagaProducts, sagaMovements, sagaWallets, sagaPayments>>

HandleCompleteOrder(o) ==
    LET r == CompleteOrder(sagaOrders, Payload(o))
    IN  /\ sagaOrders' = r.orders
        /\ last' = SagaLast("orders", "complete", o, r.res)
        /\ UNCHANGED <<sagaProducts, sagaMovements, sagaWallets, sagaPayments>>

HandleCompensateOrder(o) ==
    LET r == CancelOrder(sagaOrders, Payload(o))
    IN  /\ sagaOrders' = r.orders
        /\ last' = SagaLast("orders", "compensate", o, r.res)
        /\ UNCHANGED <<sagaProducts, sagaMovements, sagaWallets, sagaPayments>>

\* ------------------------------------------------------------------------
\* Saga: the global transaction of one order.  Steps in the order they are
\* added: Orders.create (1), Inventory.decrease (2), Payments.debit (3),
\* Orders.complete (4, no compensation).  A refused step starts the
\* compensation of the completed steps in reverse order; every call is
\* delivered at least once.
\* ------------------------------------------------------------------------
SagaSteps == 4

\* POST /api/orders: the adapter submits the saga of a new order
SagaBegin(o) ==
    /\ sagaPhase[o] = "idle"
    /\ sagaPhase' = [sagaPhase EXCEPT ![o] = "forward"]
    /\ sagaResp' = [sagaResp EXCEPT ![o] = HttpOK]
    /\ UNCHANGED <<sagaProducts, sagaMovements, sagaWallets, sagaPayments, sagaOrders,
                   sagaStep, sagaComp, last>>
    /\ UNCHANGED <<tccVars, xaVars, stepVars>>

\* POST /api/orders while the coordinator cannot be reached: MustGenGid
\* panics, the deferred recover swallows the panic and CreateOrderSaga returns
\* the zero values of its results, so the order id it generated is gone and
\* the error is nil.  The use case takes a new order id f, inserts the
\* rejected order under it and panics on err.Error(); the recovery
\* middleware answers 500.
SagaGenGidPanics(o) ==
    /\ sagaPhase[o] = "idle"
    /\ \E f \in AllOrders \ {o} :
           /\ sagaPhase[f] = "idle"
           /\ sagaOrders[f] = ""
           /\ sagaOrders' = CreateFailedOrder(sagaOrders, Payload(o), f).orders
           /\ sagaPhase' = [sagaPhase EXCEPT ![o] = "no_gid", ![f] = "stub"]
           /\ last' = [NoLast EXCEPT !.proto = "saga", !.svc = "orders", !.op = "gid", !.order = o,
                                     !.res = "panic", !.status = HttpInternalServerError,
                                     !.pre = [stub |-> f]]
    /\ sagaResp' = [sagaResp EXCEPT ![o] = HttpInternalServerError]
    /\ UNCHANGED <<sagaProducts, sagaMovements, sagaWallets, sagaPayments, sagaStep, sagaComp>>
    /\ UNCHANGED <<tccVars, xaVars, stepVars>>

\* saga.Submit() returns an error: the use case inserts an order row with
\* status rejected under the order id of the attempt (CreateFailedOrder) and
\* the handler answers 500; the coordinator is not called again
SagaSubmitFails(o) ==
    /\ sagaPhase[o] = "idle"
    /\ sagaPhase' = [sagaPhase EXCEPT ![o] = "not_submitted"]
    /\ sagaOrders' = CreateFailedOrder(sagaOrders, Payload(o), o).orders
    /\ sagaResp' = [sagaResp EXCEPT ![o] = HttpInternalServerError]
    /\ last' = [NoLast EXCEPT !.proto = "saga", !.svc = "orders", !.op = "failed", !.order = o,
                              !.res = CreateFailedOrder(sagaOrders, Payload(o), o).res,
                              !.status = HttpInternalServerError,
                              !.pre = [current |-> 0, available |-> 0, ledger |-> SagaLedger("orders", o)]]
    /\ UNCHANGED <<sagaProducts, sagaMovements, sagaWallets, sagaPayments, sagaStep, sagaComp>>
    /\ UNCHANGED <<tccVars, xaVars, stepVars>>

\* step k may be called when it is the next one, or again once it succeeded
SagaCanForward(k, o) ==
    \/ sagaPhase[o] = "forward" /\ k = sagaStep[o]
    \/ sagaPhase[o] # "idle" /\ k < sagaStep[o]


\* the coordinator state after forward step k answered
SagaAfterForward(k, o) ==
    IF sagaPhase[o] = "forward" /\ k = sagaStep[o]
    THEN IF last'.res = "ok"
         THEN /\ sagaStep' = [sagaStep EXCEPT ![o] = k + 1]
              /\ sagaPhase' = [sagaPhase EXCEPT ![o] = IF k = SagaSteps THEN "done" ELSE "forward"]
              /\ UNCHANGED <<sagaComp, sagaResp>>
         ELSE IF last'.res = "insufficient"
         THEN /\ sagaPhase' = [sagaPhase EXCEPT ![o] = IF k = 1 THEN "failed" ELSE "compensating"]
              /\ sagaComp' = [sagaComp EXCEPT ![o] = k - 1]
              /\ UNCHANGED <<sagaStep, sagaResp>>
         ELSE UNCHANGED <<sagaPhase, sagaStep, sagaComp, sagaResp>>
    ELSE UNCHANGED <<sagaPhase, sagaStep, sagaComp, sagaResp>>

SagaStepCreateOrder(o) ==
    /\ SagaCanForward(1, o)
    /\ HandleCreateOrder(o)
    /\ SagaAfterForward(1, o)
    /\ UNCHANGED <<tccVars, xaVars, stepVars>>

SagaStepDecreaseStock(o) ==
    /\ SagaCanForward(2, o)
    /\ HandleDecreaseStock(o)
    /\ SagaAfterForward(2, o)
    /\ UNCHANGED <<tccVars, xaVars, stepVars>>

SagaStepDebitPayment(o) ==
    /\ SagaCanForward(3, o)
    /\ HandleDebitPayment(o)
    /\ SagaAfterForward(3, o)
    /\ UNCHANGED <<tccVars, xaVars, stepVars>>

SagaStepCompleteOrder(o) ==
    /\ SagaCanForward(4, o)
    /\ HandleCompleteOrder(o)
    /\ SagaAfterForward(4, o)
    /\ UNCHANGED <<tccVars, xaVars, stepVars>>

\* variant: only the Orders step is ever compensated
SagaCanCompensateOrdersOnly(k, o) ==
    /\ sagaPhase[o] \in {"compensating", "failed"}
    /\ k < sagaStep[o]
    /\ k >= sagaComp[o]
    /\ k = 1

\* the compensation of step k may be called when it is the next one to undo,
\* or again once it was applied
SagaCanCompensate(k, o) ==
    /\ sagaPhase[o] \in {"compensating", "failed"}
    /\ k < sagaStep[o]
    /\ k >= sagaComp[o]
    /\ k >= 1

SagaAfterCompensate(k, o) ==
    IF sagaPhase[o] = "compensating" /\ k = sagaComp[o] /\ last'.res = "ok"
    THEN /\ sagaComp' = [sagaComp EXCEPT ![o] = k - 1]
         /\ sagaPhase' = [sagaPhase EXCEPT ![o] = IF k = 1 THEN "failed" ELSE "compensating"]
         /\ UNCHANGED <<sagaStep, sagaResp>>
    ELSE UNCHANGED <<sagaPhase, sagaStep, sagaComp, sagaResp>>

SagaUndoDecreaseStock(o) ==
    /\ SagaCanCompensate(2, o)
    /\ HandleCompensateStock(o)
    /\ SagaAfterCompensate(2, o)
    /\ UNCHANGED <<tccVars, xaVars, stepVars>>

SagaUndoCreateOrder(o) ==
    /\ SagaCanCompensate(1, o)
    /\ HandleCompensateOrder(o)
    /\ SagaAfterCompensate(1, o)
    /\ UNCHANGED <<tccVars, xaVars, stepVars>>

SagaNext ==
    \E o \in OrderIds :
        \/ SagaBegin(o)
        \/ SagaGenGidPanics(o)
        \/ SagaSubmitFails(o)
        \/ SagaStepCreateOrder(o)
        \/ SagaStepDecreaseStock(o)
        \/ SagaStepDebitPayment(o)
        \/ SagaStepCompleteOrder(o)
        \/ SagaUndoDecreaseStock(o)
        \/ SagaUndoCreateOrder(o)

\* the Saga Inventory and Payments participants under any deliveries in any order
SagaFreeDecreaseStock(o) ==
    /\ HandleDecreaseStock(o)
    /\ UNCHANGED <<sagaPhase, sagaStep, sagaComp, sagaResp>>
    /\ UNCHANGED <<tccVars, xaVars, stepVars>>

SagaFreeCompensateStock(o) ==
    /\ HandleCompensateStock(o)
    /\ UNCHANGED <<sagaPhase, sagaStep, sagaComp, sagaResp>>
    /\ UNCHANGED <<tccVars, xaVars, stepVars>>

SagaFreeDebitPayment(o) ==
    /\ HandleDebitPayment(o)
    /\ UNCHANGED <<sagaPhase, sagaStep, sagaComp, sagaResp>>
    /\ UNCHANGED <<tccVars, xaVars, stepVars>>

SagaFreeCompensatePayment(o) ==
    /\ HandleCompensatePayment(o)
    /\ UNCHANGED <<sagaPhase, sagaStep, sagaComp, sagaResp>>
    /\ UNCHANGED <<tccVars, xaVars, stepVars>>

SagaFreeNext ==
    \E o \in AllOrders :
        \/ SagaFreeDecreaseStock(o)
        \/ SagaFreeCompensateStock(o)
        \/ SagaFreeDebitPayment(o)
        \/ SagaFreeCompensatePayment(o)

\* the Saga and TCC Orders participants under any deliveries in any order
OrdersFreeCreate(o) ==
    HandleCreateOrder(o) /\ UNCHANGED <<sagaPhase, sagaStep, sagaComp, sagaResp, tccVars, xaVars, stepVars>>

OrdersFreeComplete(o) ==
    HandleCompleteOrder(o) /\ UNCHANGED <<sagaPhase, sagaStep, sagaComp, sagaResp, tccVars, xaVars, stepVars>>

OrdersFreeCompensate(o) ==
    HandleCompensateOrder(o) /\ UNCHANGED <<sagaPhase, sagaStep, sagaComp, sagaResp, tccVars, xaVars, stepVars>>

OrdersFreeTry(o) ==
    HandleTryCreateOrder(o) /\ UNCHANGED <<tccPhase, tccNext, tccResp, sagaVars, xaVars, stepVars>>

OrdersFreeConfirm(o) ==
    HandleConfirmCreateOrder(o) /\ UNCHANGED <<tccPhase, tccNext, tccResp, sagaVars, xaVars, stepVars>>

OrdersFreeCancel(o) ==
    HandleCancelCreateOrder(o) /\ UNCHANGED <<tccPhase, tccNext, tccResp, sagaVars, xaVars, stepVars>>

OrdersFreeNext ==
    \E o \in OrderIds :
        \/ OrdersFreeCreate(o)
        \/ OrdersFreeComplete(o)
        \/ OrdersFreeCompensate(o)
        \/ OrdersFreeTry(o)
        \/ OrdersFreeConfirm(o)
        \/ OrdersFreeCancel(o)

\* ------------------------------------------------------------------------
\* 2PC/XA: repositories.  Each runs inside the XA branch of its database; the
\* result is the error ("" when there is none) and the writes of the branch.
\* ------------------------------------------------------------------------
\* variant: the UPDATE without AND current_stock >= 1 on a table without CHECK
DecreaseStockXAUnguarded(products, req) ==
    IF req.product_id \in DOMAIN products
    THEN [err |-> "", delta |-> 1]
    ELSE [err |-> "insufficient stock or product not found", delta |-> 0]

\* UPDATE products_inventory SET current_stock = current_stock - 1
\*   WHERE product_id = $1 AND current_stock >= 1; then INSERT the movement
DecreaseStockXA(products, req) ==
    IF req.product_id \in DOMAIN products /\ products[req.product_id] >= 1
    THEN [err |-> "", delta |-> 1]
    ELSE [err |-> "insufficient stock or product not found", delta |-> 0]

\* UPDATE wallets SET current_amount = current_amount - $1
\*   WHERE user_id = $2 AND current_amount >= $1; then INSERT the transaction
DebitBalanceXA(wallets, userID, amount) ==
    IF userID \in DOMAIN wallets /\ wallets[userID] >= amount
    THEN [err |-> "", delta |-> amount]
    ELSE [err |-> "insufficient balance or user not found", delta |-> 0]

DebitWalletXA(wallets, req) ==
    IF req.total_price <= 0
    THEN [err |-> "amount must be greater than 0", delta |-> 0]
    ELSE DebitBalanceXA(wallets, req.user_id, req.total_price)

\* INSERT INTO orders (order_id, ..., status) with status 'completed'
CreateOrderXA(orders, req) ==
    IF orders[req.order_id] # ""
    THEN [err |-> "failed to create order", status |-> ""]
    ELSE [err |-> "", status |-> "completed"]

\* ------------------------------------------------------------------------
\* 2PC/XA: the global transaction of one order.  Branch 1 Orders, 2 Inventory,
\* 3 Payment, called in this order; the first failing call aborts the global
\* transaction.  A prepared branch keeps the lock of the row it updated until
\* its XA COMMIT or XA ROLLBACK.
\* ------------------------------------------------------------------------
XaBranches == 3

NoFailure == [branch |-> 0, err |-> ""]

\* POST /api/orders: the adapter opens the global transaction
XaBegin(o) ==
    /\ xaPhase[o] = "idle"
    /\ xaPhase' = [xaPhase EXCEPT ![o] = "branches"]
    /\ UNCHANGED <<xaProducts, xaMovements, xaWallets, xaPayments, xaOrders,
                   xaNext, xaPrepared, xaResp, xaFailed, last>>
    /\ UNCHANGED <<tccVars, sagaVars, xaInitialStock, stepVars>>

\* POST /api/orders while the coordinator cannot be reached: MustGenGid
\* panics, the deferred recover swallows the panic and CreateOrderXA returns
\* the zero values of its results, a nil error among them; no branch is called
\* and the handler answers 200
XaGenGidPanics(o) ==
    /\ xaPhase[o] = "idle"
    /\ xaPhase' = [xaPhase EXCEPT ![o] = "no_gid"]
    /\ xaResp' = [xaResp EXCEPT ![o] = HttpOK]
    /\ last' = [NoLast EXCEPT !.proto = "xa", !.svc = "orders", !.op = "gid", !.order = o,
                              !.res = "panic"]
    /\ UNCHANGED <<xaProducts, xaMovements, xaWallets, xaPayments, xaOrders,
                   xaNext, xaPrepared, xaFailed>>
    /\ UNCHANGED <<tccVars, sagaVars, xaInitialStock, stepVars>>


\* the row of branch b of order o is locked by a prepared branch of another order
XaRowLocked(b, o) ==
    \E q \in OrderIds \ {o} :
        /\ b \in xaPrepared[q]
        /\ \/ b = 2 /\ ProductOf(q) = ProductOf(o)
           \/ b = 3 /\ UserOf(q) = UserOf(o)

\* the global transaction after the call of branch b returned err: the branch
\* is prepared and the next one is called, the last one submits the global
\* transaction and the caller gets 200; an error aborts it and the caller
\* gets 500
XaAfterBranch(b, o, err) ==
    IF err = ""
    THEN /\ xaPrepared' = [xaPrepared EXCEPT ![o] = @ \cup {b}]
         /\ xaNext' = [xaNext EXCEPT ![o] = b + 1]
         /\ xaPhase' = [xaPhase EXCEPT ![o] = IF b = XaBranches THEN "committing" ELSE "branches"]
         /\ xaResp' = [xaResp EXCEPT ![o] = IF b = XaBranches THEN HttpOK ELSE @]
         /\ UNCHANGED xaFailed
    ELSE /\ xaPhase' = [xaPhase EXCEPT ![o] = IF xaPrepared[o] = {} THEN "aborted" ELSE "aborting"]
         /\ xaResp' = [xaResp EXCEPT ![o] = HttpInternalServerError]
         /\ xaFailed' = [xaFailed EXCEPT ![o] = [branch |-> b, err |-> err]]
         /\ UNCHANGED <<xaPrepared, xaNext>>

\* variant: branches called in any order
XaCanCallAnyBranch(b, o) == xaPhase[o] = "branches"


XaCanCall(b, o) == xaPhase[o] = "branches" /\ xaNext[o] = b

XaCallOrders(o) ==
    /\ XaCanCall(1, o)
    /\ XaAfterBranch(1, o, CreateOrderXA(xaOrders, Payload(o)).err)
    /\ last' = [NoLast EXCEPT !.proto = "xa", !.svc = "orders", !.op = "prepare", !.order = o,
                              !.res = CreateOrderXA(xaOrders, Payload(o)).err]
    /\ UNCHANGED <<xaProducts, xaMovements, xaWallets, xaPayments, xaOrders>>
    /\ UNCHANGED <<tccVars, sagaVars, xaInitialStock, stepVars>>

XaCallInventory(o) ==
    /\ XaCanCall(2, o)
    /\ ~XaRowLocked(2, o)
    /\ XaAfterBranch(2, o, DecreaseStockXA(xaProducts, Payload(o)).err)
    /\ last' = [NoLast EXCEPT !.proto = "xa", !.svc = "inventory", !.op = "prepare", !.order = o,
                              !.res = DecreaseStockXA(xaProducts, Payload(o)).err]
    /\ UNCHANGED <<xaProducts, xaMovements, xaWallets, xaPayments, xaOrders>>
    /\ UNCHANGED <<tccVars, sagaVars, xaInitialStock, stepVars>>

XaCallPayment(o) ==
    /\ XaCanCall(3, o)
    /\ ~XaRowLocked(3, o)
    /\ XaAfterBranch(3, o, DebitWalletXA(xaWallets, Payload(o)).err)
    /\ last' = [NoLast EXCEPT !.proto = "xa", !.svc = "payment", !.op = "prepare", !.order = o,
                              !.res = DebitWalletXA(xaWallets, Payload(o)).err]
    /\ UNCHANGED <<xaProducts, xaMovements, xaWallets, xaPayments, xaOrders>>
    /\ UNCHANGED <<tccVars, sagaVars, xaInitialStock, stepVars>>

\* a branch that waits for a locked row until the request is cancelled fails
XaCallTimeout(o) ==
    /\ \E b \in 2..XaBranches : XaCanCall(b, o) /\ XaRowLocked(b, o)
    /\ XaAfterBranch(xaNext[o], o, "canceling statement")
    /\ last' = [NoLast EXCEPT !.proto = "xa", !.svc = "", !.op = "prepare", !.order = o,
                              !.res = "canceling statement"]
    /\ UNCHANGED <<xaProducts, xaMovements, xaWallets, xaPayments, xaOrders>>
    /\ UNCHANGED <<tccVars, sagaVars, xaInitialStock, stepVars>>

\* the phase of the global transaction once branch b is finished
XaFinished(b, o, phase) ==
    /\ xaPrepared' = [xaPrepared EXCEPT ![o] = @ \ {b}]
    /\ xaPhase' = [xaPhase EXCEPT ![o] = IF xaPrepared[o] = {b} THEN phase ELSE @]
    /\ UNCHANGED <<xaNext, xaResp, xaFailed>>

\* XA COMMIT of branch b: its writes become the committed rows
XaCommitWrites(b, o) ==
    /\ xaOrders' = IF b = 1 THEN [xaOrders EXCEPT ![o] = CreateOrderXA(xaOrders, Payload(o)).status]
                   ELSE xaOrders
    /\ xaProducts' = IF b = 2
                     THEN [xaProducts EXCEPT ![ProductOf(o)] =
                              @ - DecreaseStockXA(xaProducts, Payload(o)).delta]
                     ELSE xaProducts
    /\ xaMovements' = IF b = 2 THEN [xaMovements EXCEPT ![o] = @ + 1] ELSE xaMovements
    /\ xaWallets' = IF b = 3
                    THEN [xaWallets EXCEPT ![UserOf(o)] =
                             @ - DebitWalletXA(xaWallets, Payload(o)).delta]
                    ELSE xaWallets
    /\ xaPayments' = IF b = 3 THEN [xaPayments EXCEPT ![o] = @ + 1] ELSE xaPayments

\* variant: the rollback of a branch that keeps its writes
XaRollbackKeepsWrites(b, o) == XaCommitWrites(b, o)

\* XA ROLLBACK of branch b: its writes are dropped
XaRollbackWrites(b, o) ==
    UNCHANGED <<xaProducts, xaMovements, xaWallets, xaPayments, xaOrders>>

XaCommitBranch(o) ==
    /\ xaPhase[o] = "committing"
    /\ \E b \in xaPrepared[o] :
           /\ XaCommitWrites(b, o)
           /\ XaFinished(b, o, "committed")
           /\ last' = [NoLast EXCEPT !.proto = "xa", !.op = "commit", !.order = o]
    /\ UNCHANGED <<tccVars, sagaVars, xaInitialStock, stepVars>>

XaRollbackBranch(o) ==
    /\ xaPhase[o] = "aborting"
    /\ \E b \in xaPrepared[o] :
           /\ XaRollbackWrites(b, o)
           /\ XaFinished(b, o, "aborted")
           /\ last' = [NoLast EXCEPT !.proto = "xa", !.op = "rollback", !.order = o]
    /\ UNCHANGED <<tccVars, sagaVars, xaInitialStock, stepVars>>

XaNextStep ==
    \E o \in OrderIds :
        \/ XaBegin(o)
        \/ XaGenGidPanics(o)
        \/ XaCallOrders(o)
        \/ XaCallInventory(o)
        \/ XaCallPayment(o)
        \/ XaCallTimeout(o)
        \/ XaCommitBranch(o)
        \/ XaRollbackBranch(o)

\* ------------------------------------------------------------------------
\* 2PC/XA: the Inventory and Payment participants called directly.  The XA
\* business action runs in its own XA branch, which is prepared when the
\* action returns nil and rolled back when it returns an error; a prepared
\* branch is later committed or rolled back by the phase-two call.
\* ------------------------------------------------------------------------
XaCurrent(svc, o) ==
    IF svc = "inventory"
    THEN (IF ProductOf(o) \in DOMAIN xaProducts THEN xaProducts[ProductOf(o)] ELSE 0)
    ELSE (IF UserOf(o) \in DOMAIN xaWallets THEN xaWallets[UserOf(o)] ELSE 0)

\* the number of ledger rows of the order
XaLedger(svc, o) == IF svc = "inventory" THEN xaMovements[o] ELSE xaPayments[o]

XaRowExists(svc, o) ==
    IF svc = "inventory" THEN ProductOf(o) \in DOMAIN xaProducts ELSE UserOf(o) \in DOMAIN xaWallets

XaLast(svc, op, o, res) ==
    [proto |-> "xa", svc |-> svc, op |-> op, order |-> o, res |-> res,
     status |-> IF res = "" THEN HttpOK ELSE HttpInternalServerError,
     pre |-> [current |-> XaCurrent(svc, o), available |-> 0, ledger |-> XaLedger(svc, o)]]

\* the row the UPDATE of branch b of order o needs is locked by a prepared branch
XaFreeRowLocked(b, o) ==
    \E q \in AllOrders :
        /\ b \in xaPrepared[q]
        /\ \/ b = 2 /\ ProductOf(q) = ProductOf(o)
           \/ b = 3 /\ UserOf(q) = UserOf(o)

\* POST /api/inventory/xa with the payload of order o
XaFreeCallInventory(o) ==
    /\ ~XaFreeRowLocked(2, o)
    /\ xaPrepared' = [xaPrepared EXCEPT ![o] =
                         IF DecreaseStockXA(xaProducts, Payload(o)).err = "" THEN @ \cup {2} ELSE @]
    /\ last' = XaLast("inventory", "prepare", o, DecreaseStockXA(xaProducts, Payload(o)).err)
    /\ UNCHANGED <<xaProducts, xaMovements, xaWallets, xaPayments, xaOrders,
                   xaPhase, xaNext, xaResp, xaFailed>>
    /\ UNCHANGED <<tccVars, sagaVars, xaInitialStock, stepVars>>

\* POST /api/payment/xa with the payload of order o
XaFreeCallPayment(o) ==
    /\ ~XaFreeRowLocked(3, o)
    /\ xaPrepared' = [xaPrepared EXCEPT ![o] =
                         IF DebitWalletXA(xaWallets, Payload(o)).err = "" THEN @ \cup {3} ELSE @]
    /\ last' = XaLast("payment", "prepare", o, DebitWalletXA(xaWallets, Payload(o)).err)
    /\ UNCHANGED <<xaProducts, xaMovements, xaWallets, xaPayments, xaOrders,
                   xaPhase, xaNext, xaResp, xaFailed>>
    /\ UNCHANGED <<tccVars, sagaVars, xaInitialStock, stepVars>>

XaFreeService(b) == IF b = 2 THEN "inventory" ELSE "payment"

\* the phase-two call with op = commit for a prepared branch of order o
XaFreeCommit(o) ==
    /\ \E b \in xaPrepared[o] \cap {2, 3} :
           /\ XaCommitWrites(b, o)
           /\ xaPrepared' = [xaPrepared EXCEPT ![o] = @ \ {b}]
           /\ last' = XaLast(XaFreeService(b), "commit", o, "")
    /\ UNCHANGED <<xaPhase, xaNext, xaResp, xaFailed>>
    /\ UNCHANGED <<tccVars, sagaVars, xaInitialStock, stepVars>>

\* the phase-two call with op = rollback for a prepared branch of order o
XaFreeRollback(o) ==
    /\ \E b \in xaPrepared[o] \cap {2, 3} :
           /\ XaRollbackWrites(b, o)
           /\ xaPrepared' = [xaPrepared EXCEPT ![o] = @ \ {b}]
           /\ last' = XaLast(XaFreeService(b), "rollback", o, "")
    /\ UNCHANGED <<xaPhase, xaNext, xaResp, xaFailed>>
    /\ UNCHANGED <<tccVars, sagaVars, xaInitialStock, stepVars>>

XaFreeNext ==
    \E o \in AllOrders :
        \/ XaFreeCallInventory(o)
        \/ XaFreeCallPayment(o)
        \/ XaFreeCommit(o)
        \/ XaFreeRollback(o)

\* ------------------------------------------------------------------------
\* Properties
\* ------------------------------------------------------------------------
Range(f) == {f[i] : i \in DOMAIN f}

\* the number of rows of the given type over the orders of S
RECURSIVE CountRows(_, _, _)
CountRows(ledger, S, type) ==
    IF S = {} THEN 0
    ELSE LET o == CHOOSE x \in S : TRUE
         IN  Cardinality({i \in DOMAIN ledger[o] : ledger[o][i] = type})
             + CountRows(ledger, S \ {o}, type)

\* the sum of the amounts of the rows of the given type over the orders of S
RECURSIVE SumRows(_, _, _)
SumRows(ledger, S, type) ==
    IF S = {} THEN 0
    ELSE LET o == CHOOSE x \in S : TRUE
         IN  Cardinality({i \in DOMAIN ledger[o] : ledger[o][i] = type}) * AmountOf(o)
             + SumRows(ledger, S \ {o}, type)

SagaPaymentTypes == [o \in AllOrders |-> SagaLedger("payments", o)]

TccPaymentStatuses == [o \in AllOrders |-> TccLedger("payment", o)]

\* C1: a Saga forward step (Inventory DecreaseStock, Payments DebitPayment)
\* delivered for an order that already has its forward ledger row returns
\* success and changes neither the resource row nor the ledger; every order
\* has at most one forward row, and each forward row accounts for exactly one
\* unit of stock (exactly the amount of the order in the wallet).
C1_ForwardIdempotent ==
    /\ (last.proto = "saga" /\ last.op = "forward" /\ last.svc = "inventory"
            /\ "decreased" \in Range(last.pre.ledger))
          => /\ last.res = "ok"
             /\ SagaCurrent("inventory", last.order) = last.pre.current
             /\ SagaLedger("inventory", last.order) = last.pre.ledger
    /\ (last.proto = "saga" /\ last.op = "forward" /\ last.svc = "payments"
            /\ "debit" \in Range(last.pre.ledger))
          => /\ last.res = "ok"
             /\ SagaCurrent("payments", last.order) = last.pre.current
             /\ SagaLedger("payments", last.order) = last.pre.ledger
    /\ \A o \in AllOrders :
          /\ CountRows(sagaMovements, {o}, "decreased") <= 1
          /\ CountRows(SagaPaymentTypes, {o}, "debit") <= 1
    /\ \A p \in ProductRows :
          sagaProducts[p] = InitStock - CountRows(sagaMovements, OrderIds, "decreased")
                                      + CountRows(sagaMovements, OrderIds, "increased")
    /\ \A u \in UserRows :
          sagaWallets[u] = InitAmount - SumRows(SagaPaymentTypes, OrderIds, "debit")
                                      + SumRows(SagaPaymentTypes, OrderIds, "credit")

\* a forward step was delivered again for an order that already had its row
C1_Witness ==
    /\ last.proto = "saga" /\ last.op = "forward" /\ last.svc = "inventory"
    /\ last.pre.ledger = <<"decreased">>
    /\ last.res = "ok"
    /\ sagaProducts[ProductOf(last.order)] = InitStock - 1

\* C2: in the TCC Inventory and Payment participants every order has at most
\* one ledger row; a new row is pending, a pending row only becomes completed
\* or rejected, and a completed or rejected row never changes again, under
\* any deliveries of Try, Confirm and Cancel in any order.
C2_LedgerMonotone ==
    [][\A svc \in {"inventory", "payment"}, o \in AllOrders :
          /\ Len(TccLedger(svc, o)') <= 1
          /\ TccLedger(svc, o) = <<>> /\ TccLedger(svc, o)' # <<>>
                => TccLedger(svc, o)' = <<"pending">>
          /\ TccLedger(svc, o) # <<>>
                => /\ TccLedger(svc, o)' # <<>>
                   /\ \/ TccLedger(svc, o)'[1] = TccLedger(svc, o)[1]
                      \/ /\ TccLedger(svc, o)[1] = "pending"
                         /\ TccLedger(svc, o)'[1] \in {"completed", "rejected"}]_vars

\* a Confirm was delivered for an order whose row was rejected, and succeeded
C2_Witness ==
    /\ last.proto = "tcc" /\ last.op = "confirm" /\ last.svc = "inventory"
    /\ last.pre.ledger = <<"rejected">>
    /\ last.res = "ok"
    /\ TccLedger("inventory", last.order) = <<"rejected">>

\* C3: every product row and every wallet row of the TCC variant satisfies
\* 0 <= available <= current, under any deliveries of Try, Confirm and
\* Cancel, a Confirm or a Cancel without a preceding Try included.
C3_AvailableWithinCurrent ==
    /\ \A p \in ProductRows :
          /\ 0 <= tccProducts[p].stock_available
          /\ tccProducts[p].stock_available <= tccProducts[p].current_stock
    /\ \A u \in UserRows :
          /\ 0 <= tccWallets[u].available_amount
          /\ tccWallets[u].available_amount <= tccWallets[u].current_amount

\* a Confirm without a preceding Try was delivered and changed the row
C3_Witness ==
    /\ last.proto = "tcc" /\ last.op = "confirm" /\ last.svc = "inventory"
    /\ last.pre.ledger = <<>>
    /\ TccCurrent("inventory", last.order) < last.pre.current

\* C4: with the deliveries the TCC coordinator makes, and no participant
\* transaction in flight, every product row has stock_available =
\* current_stock - (number of pending inventory ledger rows of the product)
\* and every wallet has available_amount = current_amount - (sum of the
\* amounts of its pending payment ledger rows).
C4_ReservationAccounting ==
    /\ \A p \in ProductRows :
          tccProducts[p].stock_available =
              tccProducts[p].current_stock - CountRows(tccMovements, OrderIds, "pending")
    /\ \A u \in UserRows :
          tccWallets[u].available_amount =
              tccWallets[u].current_amount - SumRows(TccPaymentStatuses, OrderIds, "pending")

\* one reservation was cancelled while another one is still pending
C4_Witness ==
    /\ last.proto = "tcc" /\ last.op = "cancel" /\ last.svc = "inventory"
    /\ last.pre.ledger = <<"pending">>
    /\ TccLedger("inventory", last.order) = <<"rejected">>
    /\ \E o \in OrderIds : tccMovements[o] = <<"pending">>

\* C5: in the Saga and TCC Orders participants the stored status of an
\* order only moves from pending to completed or to rejected/cancelled, and
\* a completed, rejected or cancelled status is never changed by a later
\* delivery, under any deliveries in any order.
C5_OrderStatusMonotone ==
    [][\A o \in OrderIds :
          /\ sagaOrders[o] = "" => sagaOrders'[o] \in {"", "pending"}
          /\ sagaOrders[o] = "pending" => sagaOrders'[o] \in {"pending", "completed", "rejected"}
          /\ sagaOrders[o] \in {"completed", "rejected"} => sagaOrders'[o] = sagaOrders[o]
          /\ tccOrders[o] = "" => tccOrders'[o] \in {"", "pending"}
          /\ tccOrders[o] = "pending" => tccOrders'[o] \in {"pending", "completed", "cancelled"}
          /\ tccOrders[o] \in {"completed", "cancelled"} => tccOrders'[o] = tccOrders[o]]_vars

\* every 2PC/XA global transaction is over
XaAllTerminated == \A o \in OrderIds : xaPhase[o] \in {"idle", "invalid", "no_gid", "committed", "aborted"}

XaCommitted == {o \in OrderIds : xaPhase[o] = "committed"}

\* C6: a 2PC/XA global transaction that is over has committed all of its
\* three branches (order row completed, one inventory row and one unit of
\* stock, one payment row and the amount of the order) or none of them, and
\* the caller got 200 resp. 500; an order whose Inventory branch was refused
\* (stock 0) gets 500, has no order row and took nothing from the wallet.
C6_AllOrNothing ==
    /\ \A o \in OrderIds :
          /\ xaPhase[o] = "committed"
                => /\ xaOrders[o] = "completed" /\ xaMovements[o] = 1 /\ xaPayments[o] = 1
                   /\ xaResp[o] = HttpOK
          /\ xaPhase[o] = "aborted"
                => /\ xaOrders[o] = "" /\ xaMovements[o] = 0 /\ xaPayments[o] = 0
                   /\ xaResp[o] = HttpInternalServerError
          /\ xaFailed[o].branch = 2
                => /\ xaOrders[o] = "" /\ xaPayments[o] = 0
                   /\ xaResp[o] = HttpInternalServerError
    /\ XaAllTerminated
          => /\ \A p \in ProductRows :
                   xaProducts[p] = xaInitialStock[p] - Cardinality(XaCommitted)
             /\ \A u \in UserRows :
                   xaWallets[u] = InitAmount - SumRows([o \in AllOrders |-> <<"c">>], XaCommitted, "c")

\* with no stock left an order was refused by Inventory and rolled back
\* while another order is committed
C6_Witness ==
    /\ XaAllTerminated
    /\ \E o \in OrderIds :
          /\ xaPhase[o] = "aborted"
          /\ xaFailed[o] = [branch |-> 2, err |-> "insufficient stock or product not found"]
          /\ xaProducts[ProductOf(o)] = 0
    /\ XaCommitted # {}

\* every Saga global transaction is over
SagaAllTerminated ==
    \A o \in OrderIds :
        sagaPhase[o] \in {"idle", "invalid", "no_gid", "stub", "not_submitted", "done", "failed"}

SagaCompleted == {o \in OrderIds : sagaOrders[o] = "completed"}

\* C7: when every Saga global transaction is over (its four forward steps
\* succeeded, or one was refused and the completed ones were compensated),
\* the stock is the initial stock minus the number of completed orders and
\* the wallet is the initial amount minus the amounts of the completed orders.
C7_SagaConservation ==
    SagaAllTerminated
        => /\ \A p \in ProductRows : InitStock - sagaProducts[p] = Cardinality(SagaCompleted)
           /\ \A u \in UserRows :
                 InitAmount - sagaWallets[u] =
                     SumRows([o \in AllOrders |-> <<"c">>], SagaCompleted, "c")

\* one order is completed and another one was refused at the debit and had
\* its stock given back
C7_Witness ==
    /\ SagaAllTerminated
    /\ \E o \in OrderIds : sagaPhase[o] = "done"
    /\ \E o \in OrderIds : sagaPhase[o] = "failed" /\ sagaMovements[o] = <<"decreased", "increased">>

\* what a Try reserves: one unit for Inventory, total_price for Payment
Required(svc, o) == IF svc = "inventory" THEN 1 ELSE Payload(o).total_price

\* C8: a TCC Try for an order without a ledger row takes exactly the required
\* amount from available, leaves current as it is and inserts one pending
\* row when available >= required, and otherwise fails and changes nothing.
C8_TryOnAbsent ==
    (last.proto = "tcc" /\ last.op = "try" /\ last.svc \in {"inventory", "payment"}
        /\ last.pre.ledger = <<>>)
      => IF last.pre.available >= Required(last.svc, last.order)
         THEN /\ last.res = "ok"
              /\ TccAvailable(last.svc, last.order)
                    = last.pre.available - Required(last.svc, last.order)
              /\ TccCurrent(last.svc, last.order) = last.pre.current
              /\ TccLedger(last.svc, last.order) = <<"pending">>
         ELSE /\ last.res # "ok"
              /\ TccSnapshot(last.svc, last.order) = last.pre

\* a Try reserved the amount of an order that had no ledger row
C8_Witness ==
    /\ last.proto = "tcc" /\ last.op = "try" /\ last.svc = "payment"
    /\ last.pre.ledger = <<>>
    /\ last.res = "ok"
    /\ TccAvailable("payment", last.order) < last.pre.available

\* C9: a TCC Try for an order that already has a pending ledger row returns
\* success and changes nothing, whatever available is (0 for Inventory, less
\* than total_price for Payment).
C9_TryIdempotentWhilePending ==
    (last.proto = "tcc" /\ last.op = "try" /\ last.svc \in {"inventory", "payment"}
        /\ last.pre.ledger = <<"pending">>)
      => /\ last.res = "ok"
         /\ TccSnapshot(last.svc, last.order) = last.pre

\* C10: a TCC Confirm for an order whose ledger row is pending takes the
\* reserved amount from current, leaves available as it is and sets the row
\* to completed; a Confirm for an order whose row is completed returns
\* success and changes neither the resource row nor the ledger.
C10_ConfirmOnPendingAndReplay ==
    (last.proto = "tcc" /\ last.op = "confirm" /\ last.svc \in {"inventory", "payment"})
      => /\ last.pre.ledger = <<"pending">>
               => /\ last.res = "ok"
                  /\ TccCurrent(last.svc, last.order)
                        = last.pre.current - Required(last.svc, last.order)
                  /\ TccAvailable(last.svc, last.order) = last.pre.available
                  /\ TccLedger(last.svc, last.order) = <<"completed">>
         /\ last.pre.ledger = <<"completed">>
               => /\ last.res = "ok"
                  /\ TccSnapshot(last.svc, last.order) = last.pre

\* a Confirm was delivered again for an order whose row was completed
C10_Witness ==
    /\ last.proto = "tcc" /\ last.op = "confirm" /\ last.svc = "inventory"
    /\ last.pre.ledger = <<"completed">>
    /\ last.res = "ok"
    /\ tccProducts[ProductOf(last.order)].current_stock < InitStock

\* C11: a successful TCC Try for an order without a ledger row, followed by
\* the Cancel of the same order, leaves current and available of the resource
\* row as they were before the Try, and the ledger row goes from pending to
\* rejected.
C11_TryThenCancel ==
    [][(/\ last.proto = "tcc" /\ last.op = "try" /\ last.svc \in {"inventory", "payment"}
        /\ last.res = "ok" /\ last.pre.ledger = <<>>
        /\ TccLedger(last.svc, last.order) = <<"pending">>
        /\ last'.proto = "tcc" /\ last'.op = "cancel"
        /\ last'.svc = last.svc /\ last'.order = last.order)
         => /\ last'.res = "ok"
            /\ TccCurrent(last.svc, last.order)' = last.pre.current
            /\ TccAvailable(last.svc, last.order)' = last.pre.available
            /\ TccLedger(last.svc, last.order)' = <<"rejected">>]_vars

\* a reservation of more than one unit was cancelled and all of it came back
C11_Witness ==
    /\ last.proto = "tcc" /\ last.op = "cancel" /\ last.svc = "payment"
    /\ last.res = "ok"
    /\ last.pre.ledger = <<"pending">>
    /\ Required("payment", last.order) > 1
    /\ TccAvailable("payment", last.order) = last.pre.available + Required("payment", last.order)
    /\ TccLedger("payment", last.order) = <<"rejected">>

\* C12: a TCC Cancel for an order that has no ledger row, or whose ledger row
\* is rejected, returns success and leaves current, available and the ledger
\* as they are.
C12_CancelNothingPending ==
    (/\ last.proto = "tcc" /\ last.op = "cancel" /\ last.svc \in {"inventory", "payment"}
     /\ last.pre.ledger \in {<<>>, <<"rejected">>})
      => /\ last.res = "ok"
         /\ TccSnapshot(last.svc, last.order) = last.pre

\* C13: a TCC Cancel for an order whose ledger row is completed returns an
\* error and leaves current, available and the ledger row (still completed)
\* as they are.
C13_CancelOnCompleted ==
    (/\ last.proto = "tcc" /\ last.op = "cancel" /\ last.svc \in {"inventory", "payment"}
     /\ last.pre.ledger = <<"completed">>)
      => /\ last.res # "ok"
         /\ TccSnapshot(last.svc, last.order) = last.pre
         /\ TccLedger(last.svc, last.order) = <<"completed">>

\* a Cancel came for a completed order while another order held a reservation
C13_Witness ==
    /\ last.proto = "tcc" /\ last.op = "cancel" /\ last.svc = "inventory"
    /\ last.pre.ledger = <<"completed">>
    /\ last.res = "conflict"
    /\ TccAvailable("inventory", last.order) < TccCurrent("inventory", last.order)

\* C14: a TCC Confirm delivered for an order whose ledger row is rejected
\* returns a failure and leaves current, available and the ledger as they are.
C14_ConfirmAfterCancel ==
    (/\ last.proto = "tcc" /\ last.op = "confirm" /\ last.svc \in {"inventory", "payment"}
     /\ last.pre.ledger = <<"rejected">>)
      => /\ last.res # "ok"
         /\ TccSnapshot(last.svc, last.order) = last.pre

\* C15 as stated: a TCC Confirm for an order without a ledger row succeeds,
\* takes the amount off current, leaves available and the ledger alone, and
\* the row then has available > current.
C15_ConfirmBreaksInvariant ==
    (/\ last.proto = "tcc" /\ last.op = "confirm" /\ last.svc \in {"inventory", "payment"}
     /\ last.order \in OrderIds
     /\ last.pre.ledger = <<>>)
      => /\ last.res = "ok"
         /\ TccCurrent(last.svc, last.order) = last.pre.current - Required(last.svc, last.order)
         /\ TccAvailable(last.svc, last.order) = last.pre.available
         /\ TccLedger(last.svc, last.order) = <<>>
         /\ TccAvailable(last.svc, last.order) > TccCurrent(last.svc, last.order)

\* C15: a TCC Confirm for an order without a ledger row is not rejected by
\* the participant itself: when available <= current - amount held before the
\* call it succeeds, takes the amount off current, leaves available alone and
\* writes no ledger row; otherwise the UPDATE fails on the CHECK constraints
\* of the row, the call returns an error and nothing changes. In both cases
\* the row keeps available <= current.
C15_ConfirmWithoutTry ==
    (/\ last.proto = "tcc" /\ last.op = "confirm" /\ last.svc \in {"inventory", "payment"}
     /\ last.order \in OrderIds
     /\ last.pre.ledger = <<>>)
      => /\ TccLedger(last.svc, last.order) = <<>>
         /\ TccAvailable(last.svc, last.order) = last.pre.available
         /\ TccAvailable(last.svc, last.order) <= TccCurrent(last.svc, last.order)
         /\ IF last.pre.available <= last.pre.current - Required(last.svc, last.order)
            THEN /\ last.res = "ok"
                 /\ TccCurrent(last.svc, last.order)
                      = last.pre.current - Required(last.svc, last.order)
            ELSE /\ last.res = "db_error"
                 /\ TccCurrent(last.svc, last.order) = last.pre.current

\* a Confirm without a Try went through on a wallet that held the reservation
\* of another order
C15_Witness ==
    /\ last.proto = "tcc" /\ last.op = "confirm" /\ last.svc = "payment"
    /\ last.order \in OrderIds
    /\ last.pre.ledger = <<>>
    /\ last.res = "ok"
    /\ TccCurrent("payment", last.order) < last.pre.current

\* C16: a TCC Try delivered again for an order whose ledger row is already
\* completed or rejected returns success and leaves the resource row and the
\* ledger as they are.
C16_TryAfterTerminal ==
    (/\ last.proto = "tcc" /\ last.op = "try" /\ last.svc \in {"inventory", "payment"}
     /\ last.pre.ledger \in {<<"completed">>, <<"rejected">>})
      => /\ last.res = "ok"
         /\ TccSnapshot(last.svc, last.order) = last.pre

\* C17: the forward step of the Orders participant (Saga create, TCC try)
\* delivered again for an order whose row already exists returns success and
\* leaves the order row as it is.
C17_OrdersForwardIdempotent ==
    (/\ last.svc = "orders"
     /\ \/ last.proto = "saga" /\ last.op = "forward"
        \/ last.proto = "tcc" /\ last.op = "try"
     /\ last.pre.ledger # <<>>)
      => /\ last.res = "ok"
         /\ IF last.proto = "saga"
            THEN SagaLedger("orders", last.order) = last.pre.ledger
            ELSE TccLedger("orders", last.order) = last.pre.ledger

\* what a Saga step takes from, or gives back to, the resource row
SagaRequired(svc, o) == IF svc = "inventory" THEN 1 ELSE Payload(o).amount

SagaForwardType(svc) == IF svc = "inventory" THEN "decreased" ELSE "debit"

SagaReverseType(svc) == IF svc = "inventory" THEN "increased" ELSE "credit"

\* C18: a Saga DecreaseStock on a product with current_stock = 0, and a Saga
\* DebitPayment on a wallet with current_amount < amount, for an order without
\* a forward ledger row, fail with the insufficient stock / insufficient funds
\* error, answered as HTTP 400, and leave the resource row and the ledger as
\* they are.
C18_InsufficientRefused ==
    (/\ last.proto = "saga" /\ last.op = "forward" /\ last.svc \in {"inventory", "payments"}
     /\ last.order \in OrderIds
     /\ SagaForwardType(last.svc) \notin Range(last.pre.ledger)
     /\ last.pre.current < SagaRequired(last.svc, last.order))
      => /\ last.res = "insufficient"
         /\ last.status = HttpBadRequest
         /\ SagaCurrent(last.svc, last.order) = last.pre.current
         /\ SagaLedger(last.svc, last.order) = last.pre.ledger

\* a debit was refused on a wallet that still held part of the amount
C18_Witness ==
    /\ last.proto = "saga" /\ last.op = "forward" /\ last.svc = "payments"
    /\ last.order \in OrderIds
    /\ "debit" \notin Range(last.pre.ledger)
    /\ 0 < last.pre.current
    /\ last.pre.current < SagaRequired("payments", last.order)
    /\ last.status = HttpBadRequest

\* C19: a Saga DecreaseStock for a product without a row, and a Saga
\* DebitPayment for a user without a wallet row, fail, are answered as HTTP 400
\* and write nothing.
C19_NotFoundIsBadRequest ==
    (/\ last.proto = "saga" /\ last.op = "forward" /\ last.svc \in {"inventory", "payments"}
     /\ last.order = GhostOrder)
      => /\ last.res # "ok"
         /\ last.status = HttpBadRequest
         /\ SagaLedger(last.svc, last.order) = last.pre.ledger

\* C20: a Saga compensation for an order without a reverse ledger row adds
\* exactly what the forward step takes (1 for stock, amount for the wallet)
\* to the resource row and appends one reverse ledger row, whatever the
\* balance and whether a forward row exists or not; with the reverse row
\* present it returns success and changes nothing.
C20_Compensate ==
    (/\ last.proto = "saga" /\ last.op = "compensate" /\ last.svc \in {"inventory", "payments"}
     /\ last.order \in OrderIds)
      => /\ last.res = "ok"
         /\ IF SagaReverseType(last.svc) \in Range(last.pre.ledger)
            THEN /\ SagaCurrent(last.svc, last.order) = last.pre.current
                 /\ SagaLedger(last.svc, last.order) = last.pre.ledger
            ELSE /\ SagaCurrent(last.svc, last.order)
                      = last.pre.current + SagaRequired(last.svc, last.order)
                 /\ SagaLedger(last.svc, last.order)
                      = Append(last.pre.ledger, SagaReverseType(last.svc))

\* a compensation came for an order that never took stock, and added a unit
C20_Witness ==
    /\ last.proto = "saga" /\ last.op = "compensate" /\ last.svc = "inventory"
    /\ last.order \in OrderIds
    /\ last.pre.ledger = <<>>
    /\ last.res = "ok"
    /\ SagaCurrent("inventory", last.order) = last.pre.current + 1
    /\ SagaLedger("inventory", last.order) = <<"increased">>

\* C21: a successful Saga forward step (Decrease / Debit) for an order without
\* ledger rows, followed by its Compensate, leaves current_stock and
\* current_amount as they were before the forward step and leaves exactly two
\* ledger rows for the order in that participant, one forward and one reverse.
C21_ForwardThenCompensate ==
    [][(/\ last.proto = "saga" /\ last.op = "forward" /\ last.svc \in {"inventory", "payments"}
        /\ last.res = "ok" /\ last.pre.ledger = <<>>
        /\ SagaLedger(last.svc, last.order) = <<SagaForwardType(last.svc)>>
        /\ last'.proto = "saga" /\ last'.op = "compensate"
        /\ last'.svc = last.svc /\ last'.order = last.order)
         => /\ last'.res = "ok"
            /\ SagaCurrent(last.svc, last.order)' = last.pre.current
            /\ SagaLedger(last.svc, last.order)'
                 = <<SagaForwardType(last.svc), SagaReverseType(last.svc)>>]_vars

\* a debit of more than one unit was compensated and all of it came back
C21_Witness ==
    /\ last.proto = "saga" /\ last.op = "compensate" /\ last.svc = "payments"
    /\ last.res = "ok"
    /\ last.pre.ledger = <<"debit">>
    /\ SagaRequired("payments", last.order) > 1
    /\ SagaCurrent("payments", last.order) = last.pre.current + SagaRequired("payments", last.order)
    /\ SagaLedger("payments", last.order) = <<"debit", "credit">>

\* C22: in the 2PC/XA variant every committed state has at most one
\* inventory_movements row and at most one payment_transactions row per
\* order, also when the XA business action of an order is delivered more
\* than once.
C22_XaLedgerUnique ==
    \A o \in AllOrders : xaMovements[o] <= 1 /\ xaPayments[o] <= 1

\* C23: the XA business checks are inline and atomic.  DecreaseStockXA fails
\* the branch and writes nothing when current_stock < 1 or the product has no
\* row, DebitBalanceXA when current_amount < amount or the wallet has no row;
\* otherwise the branch is prepared and its commit takes exactly 1 (the
\* amount) from the row and adds one ledger row, its rollback leaves the row
\* and the ledger alone; current_stock and current_amount never go below 0.
C23_XaInlineChecks ==
    /\ \A p \in DOMAIN xaProducts : xaProducts[p] >= 0
    /\ \A u \in DOMAIN xaWallets : xaWallets[u] >= 0
    /\ (last.proto = "xa" /\ last.svc \in {"inventory", "payment"} /\ last.op = "prepare")
         => /\ XaCurrent(last.svc, last.order) = last.pre.current
            /\ XaLedger(last.svc, last.order) = last.pre.ledger
            /\ IF \/ ~XaRowExists(last.svc, last.order)
                  \/ last.pre.current < Required(last.svc, last.order)
               THEN /\ last.res # ""
                    /\ (IF last.svc = "inventory" THEN 2 ELSE 3) \notin xaPrepared[last.order]
               ELSE /\ last.res = ""
                    /\ (IF last.svc = "inventory" THEN 2 ELSE 3) \in xaPrepared[last.order]
    /\ (last.proto = "xa" /\ last.svc \in {"inventory", "payment"} /\ last.op = "commit")
         => /\ XaCurrent(last.svc, last.order) = last.pre.current - Required(last.svc, last.order)
            /\ XaLedger(last.svc, last.order) = last.pre.ledger + 1
    /\ (last.proto = "xa" /\ last.svc \in {"inventory", "payment"} /\ last.op = "rollback")
         => /\ XaCurrent(last.svc, last.order) = last.pre.current
            /\ XaLedger(last.svc, last.order) = last.pre.ledger

\* the last unit of stock is gone and the next decrease was refused
C23_Witness ==
    /\ last.proto = "xa" /\ last.svc = "inventory" /\ last.op = "prepare"
    /\ last.order \in OrderIds
    /\ last.pre.current = 0
    /\ last.res = "insufficient stock or product not found"
    /\ \E o \in OrderIds : xaMovements[o] > 0

\* C24: in the 2PC/XA variant POST /api/orders answers 200 only once the
\* global outcome is known to be commit: a caller that got 200 has a global
\* transaction that commits all three branches (order row completed, stock
\* reduced by 1, wallet reduced by the amount), and a caller whose branch
\* call failed got 500.
C24_OkOnlyAfterOutcome ==
    \A o \in OrderIds :
        /\ xaResp[o] = HttpOK => xaPhase[o] \in {"committing", "committed"}
        /\ (xaResp[o] = HttpOK /\ xaPrepared[o] = {})
              => xaOrders[o] = "completed" /\ xaMovements[o] = 1 /\ xaPayments[o] = 1
        /\ xaFailed[o].branch # 0 => xaResp[o] = HttpInternalServerError

\* ---------------------------------------------------------------------------
\* POST /api/orders with an amount that is not positive
\* ---------------------------------------------------------------------------

\* the amounts a caller may send
RequestAmounts == {-1, 0, 1}

\* Saga CreateOrderRequest: Amount is bound with binding:"required,gt=0"
\* (required refuses the zero value, gt=0 whatever is not positive)
SagaBindsAmount(amount) == amount # 0 /\ amount > 0

\* TCC and XA CreateOrderRequest carry no binding tag: every amount binds
TccBindsAmount(amount) == TRUE

XaBindsAmount(amount) == TRUE

\* Saga: ShouldBindJSON fails and the handler answers 400 before the use case
\* is called
SagaInvalidOrder(o) ==
    /\ sagaPhase[o] = "idle"
    /\ \E a \in RequestAmounts :
          /\ ~SagaBindsAmount(a)
          /\ last' = [NoLast EXCEPT !.proto = "saga", !.svc = "orders", !.op = "post", !.order = o,
                                    !.res = "invalid", !.status = HttpBadRequest,
                                    !.pre = [amount |-> a]]
    /\ sagaPhase' = [sagaPhase EXCEPT ![o] = "invalid"]
    /\ sagaResp' = [sagaResp EXCEPT ![o] = HttpBadRequest]
    /\ UNCHANGED <<sagaProducts, sagaMovements, sagaWallets, sagaPayments, sagaOrders,
                   sagaStep, sagaComp>>
    /\ UNCHANGED <<tccVars, xaVars, stepVars>>

\* TCC: the body binds, the use case returns ErrInvalidPrice before it calls
\* the orchestrator, and the handler answers every error with 500
TccInvalidOrder(o) ==
    /\ tccPhase[o] = "idle"
    /\ \E a \in RequestAmounts :
          /\ TccBindsAmount(a)
          /\ a <= 0
          /\ last' = [NoLast EXCEPT !.proto = "tcc", !.svc = "orders", !.op = "post", !.order = o,
                                    !.res = "invalid", !.status = HttpInternalServerError,
                                    !.pre = [amount |-> a]]
    /\ tccPhase' = [tccPhase EXCEPT ![o] = "invalid"]
    /\ tccResp' = [tccResp EXCEPT ![o] = HttpInternalServerError]
    /\ UNCHANGED <<tccProducts, tccMovements, tccWallets, tccPayments, tccOrders, tccNext>>
    /\ UNCHANGED <<sagaVars, xaVars, stepVars>>

\* XA: the body binds, the use case returns ErrInvalidPrice before it calls
\* the orchestrator, and the handler answers every error with 500
XaInvalidOrder(o) ==
    /\ xaPhase[o] = "idle"
    /\ \E a \in RequestAmounts :
          /\ XaBindsAmount(a)
          /\ a <= 0
          /\ last' = [NoLast EXCEPT !.proto = "xa", !.svc = "orders", !.op = "post", !.order = o,
                                    !.res = "invalid", !.status = HttpInternalServerError,
                                    !.pre = [amount |-> a]]
    /\ xaPhase' = [xaPhase EXCEPT ![o] = "invalid"]
    /\ xaResp' = [xaResp EXCEPT ![o] = HttpInternalServerError]
    /\ UNCHANGED <<xaProducts, xaMovements, xaWallets, xaPayments, xaOrders,
                   xaNext, xaPrepared, xaFailed>>
    /\ UNCHANGED <<tccVars, sagaVars, xaInitialStock, stepVars>>

\* ---------------------------------------------------------------------------
\* The three adapters side by side.  Each variant is a deployment of its own
\* (its own services and databases), so a behaviour runs one of them.
\* ---------------------------------------------------------------------------

TccIdle == \A o \in AllOrders : tccPhase[o] = "idle"

SagaIdle == \A o \in AllOrders : sagaPhase[o] = "idle"

XaIdle == \A o \in AllOrders : xaPhase[o] = "idle"

AdaptersNext ==
    \/ SagaIdle /\ XaIdle /\ TccNext
    \/ SagaIdle /\ XaIdle /\ \E o \in OrderIds : TccInvalidOrder(o)
    \/ TccIdle /\ XaIdle /\ SagaNext
    \/ TccIdle /\ XaIdle /\ \E o \in OrderIds : SagaInvalidOrder(o)
    \/ TccIdle /\ SagaIdle /\ XaNextStep
    \/ TccIdle /\ SagaIdle /\ \E o \in OrderIds : XaInvalidOrder(o)

\* C26: when the registration fails (saga.Submit returns an error; a TCC
\* branch call returns an error) the adapter answers 500 and has attempted
\* one insert of an order row under the order id of the attempt, rejected in
\* Saga and cancelled in TCC (a row the Try already wrote stays as it is);
\* after the 500 the adapter registers nothing more for that order: the
\* answer stays 500, the branch counter stands still and a Saga that was not
\* submitted never runs a step.
C26_FailedRegistration ==
    [][\A o \in OrderIds :
          /\ (tccPhase[o] = "cancelling" /\ tccResp[o] = 0 /\ tccResp'[o] # 0)
                => /\ tccResp'[o] = HttpInternalServerError
                   /\ tccOrders'[o] = IF tccOrders[o] = "" THEN "cancelled" ELSE tccOrders[o]
          /\ tccResp[o] = HttpInternalServerError
                => /\ tccResp'[o] = HttpInternalServerError
                   /\ tccNext'[o] = tccNext[o]
                   /\ tccPhase'[o] = tccPhase[o]
          /\ (sagaPhase[o] = "idle" /\ sagaPhase'[o] = "not_submitted")
                => /\ sagaResp'[o] = HttpInternalServerError
                   /\ sagaOrders'[o] = OrderStatusRejected
          /\ sagaResp[o] = HttpInternalServerError
                => /\ sagaResp'[o] = HttpInternalServerError
                   /\ sagaStep'[o] = sagaStep[o]
                   /\ sagaPhase'[o] = sagaPhase[o]
                   /\ sagaOrders'[o] = sagaOrders[o]
                   /\ sagaMovements'[o] = sagaMovements[o]
                   /\ sagaPayments'[o] = sagaPayments[o]]_vars

\* the Try of Orders was never answered, the registration was aborted and
\* the adapter wrote the cancelled order of the attempt
C26_Witness ==
    /\ last.proto = "tcc" /\ last.op = "failed" /\ last.order \in OrderIds
    /\ last.pre.ledger = <<>>
    /\ last.res = "ok"
    /\ tccOrders[last.order] = "cancelled"
    /\ tccResp[last.order] = HttpInternalServerError

\* C27: after a panic of the GID generation in the Saga or TCC adapter the
\* caller has got 500 and the failed order of the attempt is stored under the
\* order id the adapter generated for it (rejected in Saga, cancelled in
\* TCC).
C27_PanicKeepsOrderId ==
    \A o \in OrderIds :
        /\ tccPhase[o] = "no_gid"
              => tccResp[o] = HttpInternalServerError /\ tccOrders[o] = "cancelled"
        /\ sagaPhase[o] = "no_gid"
              => sagaResp[o] = HttpInternalServerError /\ sagaOrders[o] = OrderStatusRejected

\* a participant is called for an order only after the branches before it
\* succeeded for that order
C25_OrderOfBranches ==
    /\ (last.proto = "tcc" /\ last.op = "try" /\ last.svc = "inventory")
          => tccOrders[last.order] # ""
    /\ (last.proto = "tcc" /\ last.op = "try" /\ last.svc = "payment")
          => tccOrders[last.order] # "" /\ tccMovements[last.order] # <<>>
    /\ (last.proto = "saga" /\ last.op = "forward" /\ last.svc = "inventory")
          => sagaOrders[last.order] # ""
    /\ (last.proto = "saga" /\ last.op = "forward" /\ last.svc = "payments")
          => /\ sagaOrders[last.order] # ""
             /\ \E i \in DOMAIN sagaMovements[last.order] :
                   sagaMovements[last.order][i] = "decreased"
    /\ (last.proto = "saga" /\ last.op = "complete")
          => \E i \in DOMAIN sagaPayments[last.order] :
                sagaPayments[last.order][i].type = "debit"
    /\ (last.proto = "xa" /\ last.op = "prepare" /\ last.svc = "inventory")
          => 1 \in xaPrepared[last.order]
    /\ (last.proto = "xa" /\ last.op = "prepare" /\ last.svc = "payment")
          => {1, 2} \subseteq xaPrepared[last.order]

\* after a failed branch call no later branch has written or prepared
\* anything and the caller gets no success answer
C25_FailureStops ==
    \A o \in OrderIds :
        /\ tccPhase[o] = "cancelling"
              => /\ tccResp[o] \in {0, HttpInternalServerError}
                 /\ tccNext[o] <= TccBranches
                 /\ tccNext[o] = 1 => tccMovements[o] = <<>>
                 /\ tccNext[o] <= 2 => tccPayments[o] = <<>>
        /\ xaFailed[o].branch # 0
              => /\ xaResp[o] = HttpInternalServerError
                 /\ xaNext[o] = xaFailed[o].branch
                 /\ \A c \in xaPrepared[o] : c < xaFailed[o].branch

\* after a failed branch call the branch counter stands still
C25_CounterStands ==
    \A o \in OrderIds :
        /\ tccPhase[o] = "cancelling" => tccNext'[o] = tccNext[o] /\ tccPhase'[o] = "cancelling"
        /\ xaFailed[o].branch # 0 => xaNext'[o] = xaNext[o] /\ xaFailed'[o] = xaFailed[o]

\* C25: every adapter registers the branches of an order in the order Orders,
\* Inventory, Payments (Saga: then Orders.complete), all for the same order:
\* a participant is called for an order only after the branches before it
\* succeeded for that order (TCC: their Try wrote its row; Saga: the forward
\* row of the step before exists; XA: the branches before it are prepared).
\* In TCC and XA a failing branch call ends the registration: the branch
\* counter stands still from then on, no later branch has written or
\* prepared anything, and the caller does not get a success answer.
C25_FixedOrder ==
    /\ [](C25_OrderOfBranches /\ C25_FailureStops)
    /\ [][C25_CounterStands]_vars

\* XA: the Inventory branch was called after Orders was prepared and failed,
\* Payments was never called; TCC likewise is covered by the same formula
C25_Witness ==
    \E o \in OrderIds :
        /\ xaFailed[o].branch = 2
        /\ xaResp[o] = HttpInternalServerError
        /\ xaNext[o] = 2
        /\ last.proto = "xa" /\ last.op = "prepare" /\ last.svc = "inventory" /\ last.order = o

\* ---------------------------------------------------------------------------
\* The end-to-end scenarios: a coordinator that keeps delivering
\* ---------------------------------------------------------------------------

\* the coordinator delivers every phase call it owes until it is answered:
\* each forward step and each compensation of each submitted saga
SagaFairness ==
    \A o \in OrderIds :
        /\ WF_vars(SagaStepCreateOrder(o))
        /\ WF_vars(SagaStepDecreaseStock(o))
        /\ WF_vars(SagaStepDebitPayment(o))
        /\ WF_vars(SagaStepCompleteOrder(o))
        /\ WF_vars(SagaUndoDecreaseStock(o))
        /\ WF_vars(SagaUndoCreateOrder(o))

SagaNoFunds == \A u \in UserRows : sagaWallets[u] = 0

\* what the scenario expects of order o once it is over
SagaRejectedAndRestored(o) ==
    /\ sagaOrders[o] = OrderStatusRejected
    /\ sagaMovements[o] = <<"decreased", "increased">>
    /\ sagaPayments[o] = <<>>
    /\ sagaWallets[UserOf(o)] = 0

\* C28: with a wallet holding 0, a submitted Saga order eventually is
\* rejected, with the inventory ledger rows decreased and increased, no
\* payment ledger row and the wallet still at 0, and stays so; and the stock
\* eventually is back at its initial value for good.
C28_SagaInsufficientFunds ==
    SagaNoFunds
        => /\ \A o \in OrderIds :
                 [](sagaResp[o] = HttpOK => <>[]SagaRejectedAndRestored(o))
           /\ <>[](\A p \in ProductRows : sagaProducts[p] = InitStock)

C28_Witness ==
    /\ SagaNoFunds
    /\ \E o \in OrderIds :
          /\ sagaResp[o] = HttpOK
          /\ sagaPhase[o] = "failed"
          /\ SagaRejectedAndRestored(o)
          /\ sagaProducts[ProductOf(o)] = InitStock

\* the order of the TCC scenarios: one POST /api/orders
ScenarioOrder == 1

TccScenarioNext ==
    \E o \in {ScenarioOrder} :
        \/ TccBegin(o)
        \/ TccGenGidPanics(o)
        \/ TccTryOrders(o)
        \/ TccTryInventory(o)
        \/ TccTryPayment(o)
        \/ TccAbort(o)
        \/ TccFailedOrder(o)
        \/ TccConfirmOrders(o)
        \/ TccConfirmInventory(o)
        \/ TccConfirmPayment(o)
        \/ TccCancelOrders(o)
        \/ TccCancelInventory(o)
        \/ TccCancelPayment(o)

\* the coordinator delivers every phase call it owes until it is answered
\* (the Try of the next branch, the Confirms, the Cancels), and the adapter
\* finishes the request it is serving
TccFairness ==
    \A o \in {ScenarioOrder} :
        /\ WF_vars(TccTryOrders(o))
        /\ WF_vars(TccTryInventory(o))
        /\ WF_vars(TccTryPayment(o))
        /\ WF_vars(TccFailedOrder(o))
        /\ WF_vars(TccConfirmOrders(o))
        /\ WF_vars(TccConfirmInventory(o))
        /\ WF_vars(TccConfirmPayment(o))
        /\ WF_vars(TccCancelOrders(o))
        /\ WF_vars(TccCancelInventory(o))
        /\ WF_vars(TccCancelPayment(o))

TccNoFunds ==
    \A u \in UserRows : tccWallets[u] = [current_amount |-> 0, available_amount |-> 0]

\* the Try of Payments for order o was refused for insufficient funds
TccPaymentRefused(o) ==
    /\ last.proto = "tcc" /\ last.svc = "payment" /\ last.op = "try"
    /\ last.order = o
    /\ last.res = "insufficient"

\* what the scenario expects of order o once it is over
TccCancelledAndReleased(o) ==
    /\ tccOrders[o] = "cancelled"
    /\ tccMovements[o] = <<"rejected">>
    /\ \A i \in DOMAIN tccPayments[o] : tccPayments[o][i].status = "rejected"
    /\ Len(tccPayments[o]) <= 1
    /\ tccWallets[UserOf(o)] = [current_amount |-> 0, available_amount |-> 0]

\* C29: with a wallet holding 0, a TCC order whose Try of Payments was
\* refused eventually is cancelled, with its inventory ledger row rejected,
\* its payment ledger row absent or rejected and the wallet unchanged, and
\* stock_available back at its initial value, and stays so; current_stock
\* never moves.
C29_TccInsufficientFunds ==
    TccNoFunds
        => /\ [](TccPaymentRefused(ScenarioOrder) => <>[]TccCancelledAndReleased(ScenarioOrder))
           /\ [](TccPaymentRefused(ScenarioOrder)
                   => <>[](\A p \in ProductRows :
                             tccProducts[p] = [current_stock |-> InitStock, stock_available |-> InitStock]))
           /\ [](\A p \in ProductRows : tccProducts[p].current_stock = InitStock)

C29_Witness ==
    /\ TccNoFunds
    /\ \E o \in {ScenarioOrder} :
          /\ tccPhase[o] = "cancelling"
          /\ tccNext[o] = TccBranches
          /\ tccResp[o] = HttpInternalServerError
          /\ TccCancelledAndReleased(o)
          /\ tccProducts[ProductOf(o)] = [current_stock |-> InitStock, stock_available |-> InitStock]

TccFunded ==
    \A u \in UserRows :
        tccWallets[u] = [current_amount |-> InitAmount, available_amount |-> InitAmount]

\* what the happy path expects of order o once it is over
TccCompletedAndDebited(o) ==
    /\ tccOrders[o] = "completed"
    /\ tccMovements[o] = <<"completed">>
    /\ tccPayments[o] = <<[status |-> "completed", amount |-> AmountOf(o)]>>
    /\ tccProducts[ProductOf(o)] =
          [current_stock |-> InitStock - 1, stock_available |-> InitStock - 1]
    /\ tccWallets[UserOf(o)] =
          [current_amount |-> InitAmount - AmountOf(o),
           available_amount |-> InitAmount - AmountOf(o)]

\* C30: with stock and funds for it, a TCC order whose three Trys succeeded
\* (the caller got 202) eventually is completed, with both ledger rows
\* completed and current and available stock and amount reduced by what the
\* order takes, and stays so while Confirm keeps being delivered.
C30_TccHappyPath ==
    TccFunded
        => [](tccResp[ScenarioOrder] = HttpAccepted
                => <>[]TccCompletedAndDebited(ScenarioOrder))

\* everything is completed and Confirm of Payments was delivered once more
C30_Witness ==
    /\ tccResp[ScenarioOrder] = HttpAccepted
    /\ TccCompletedAndDebited(ScenarioOrder)
    /\ last.proto = "tcc" /\ last.op = "confirm" /\ last.svc = "payment"
    /\ last.order = ScenarioOrder
    /\ last.pre.ledger = <<"completed">>

\* C31: the TCC Inventory and Payment handlers answer a Try refused for
\* insufficient stock or balance, or for a missing product or wallet, with
\* 400, a Cancel that finds a completed ledger row with 409, and only the
\* other errors with 500.
C31_TccStatusClasses ==
    (last.proto = "tcc" /\ last.svc \in {"inventory", "payment"})
        => /\ (last.op = "try" /\ last.res \in {"insufficient", "not_found"})
                 => last.status = HttpBadRequest
           /\ (last.op = "cancel" /\ last.res = "conflict")
                 => last.status = HttpConflict
           /\ last.status = HttpInternalServerError
                 => ~(last.op = "try" /\ last.res \in {"insufficient", "not_found"})

\* C32: in all three variants a POST /api/orders whose amount is zero or
\* negative is answered with 400, no branch is registered or called and no
\* order row is written.
C32_InvalidAmountRefused ==
    (last.op = "post" /\ last.res = "invalid")
        => /\ last.status = HttpBadRequest
           /\ last.proto = "tcc" => tccOrders[last.order] = "" /\ tccNext[last.order] = 1
           /\ last.proto = "saga" => sagaOrders[last.order] = "" /\ sagaStep[last.order] = 1
           /\ last.proto = "xa" => xaOrders[last.order] = "" /\ xaNext[last.order] = 1

\* C35: in the TCC Inventory and Payment participants Confirm and Cancel
\* exclude each other: once the Cancel of an order has taken effect (ledger
\* row rejected, available restored) a Confirm of that order changes nothing,
\* and once the Confirm has taken effect (ledger row completed, current
\* reduced) a Cancel of that order changes nothing, so current is never
\* reduced for an order whose reservation was given back.
C35_ConfirmCancelExclusive ==
    (last.proto = "tcc" /\ last.svc \in {"inventory", "payment"})
        => /\ (last.op = "confirm" /\ last.pre.ledger = <<"rejected">>)
                 => /\ TccCurrent(last.svc, last.order) = last.pre.current
                    /\ TccLedger(last.svc, last.order) = <<"rejected">>
           /\ (last.op = "cancel" /\ last.pre.ledger = <<"completed">>)
                 => /\ TccAvailable(last.svc, last.order) = last.pre.available
                    /\ TccLedger(last.svc, last.order) = <<"completed">>

\* every ledger of the two participants is empty, or holds the forward row,
\* or the forward row followed by the compensation row: no Compensate has had
\* an effect so far except after the successful forward step of its order
SagaCompensatedOnlyAfterForward ==
    \A svc \in {"inventory", "payments"} : \A o \in AllOrders :
        SagaLedger(svc, o) \in {<<>>, <<SagaForwardType(svc)>>,
                                <<SagaForwardType(svc), SagaReverseType(svc)>>}

\* C39: Saga compensation never creates value. When the Compensate of an
\* order is delivered after the forward step of that order was attempted
\* (whether that attempt succeeded, or failed and committed nothing), it never
\* lifts current_stock of the product, resp. current_amount of the wallet,
\* above the initial value of the row.
C39_CompensationCreatesNoValue ==
    [][(/\ SagaCompensatedOnlyAfterForward
        /\ last.proto = "saga" /\ last.op = "forward" /\ last.svc \in {"inventory", "payments"}
        /\ last'.proto = "saga" /\ last'.op = "compensate"
        /\ last'.svc = last.svc /\ last'.order = last.order)
         => /\ \A p \in ProductRows : sagaProducts'[p] <= InitStock
            /\ \A u \in UserRows : sagaWallets'[u] <= InitAmount]_vars

\* the Inventory and Payment(s) participants of the Saga and of the TCC
\* variant, any delivery at any time; one variant is deployed in a run
ParticipantsFreeNext ==
    \/ last.proto \in {"", "tcc"} /\ TccFreeNext
    \/ last.proto \in {"", "saga"} /\ SagaFreeNext

\* C36: participant operations are atomic on failure. When an operation of a
\* Saga or TCC Inventory/Payment participant fails at any step after its
\* transaction began, the transaction is rolled back: the resource row and the
\* ledger of the order are as they were before the delivery.
C36_AtomicOnFailure ==
    /\ (last.proto = "tcc" /\ last.svc \in {"inventory", "payment"} /\ last.res # "ok")
          => TccSnapshot(last.svc, last.order) = last.pre
    /\ (last.proto = "saga" /\ last.svc \in {"inventory", "payments"} /\ last.res # "ok")
          => /\ SagaCurrent(last.svc, last.order) = last.pre.current
             /\ SagaLedger(last.svc, last.order) = last.pre.ledger

\* a Try reserved the amount again for an order whose ledger row was
\* terminal, the insert of the new pending row failed on the UNIQUE
\* constraint, and the wallet shows no reservation
C36_Witness ==
    /\ last.proto = "tcc" /\ last.svc = "payment" /\ last.op = "try"
    /\ last.res = "db_error"
    /\ last.pre.ledger = <<"completed">>
    /\ last.pre.available >= Required("payment", last.order)
    /\ TccSnapshot("payment", last.order) = last.pre

\* the three TCC participants, any phase of any order at any time
TccAllFreeNext ==
    \/ TccFreeNext
    \/ \E o \in OrderIds : OrdersFreeTry(o) \/ OrdersFreeConfirm(o) \/ OrdersFreeCancel(o)

\* C38: an empty-rollback Cancel leaves no trace in the TCC participants. A
\* Cancel for an order without a ledger row writes no ledger row, and a Try
\* of the same order delivered right after it is accepted when available
\* covers the amount: it takes the amount from available and creates the
\* pending ledger row. In TCC Orders a Cancel for a missing order succeeds
\* without writing and the Try delivered after it inserts the pending order.
C38_EmptyCancelLeavesNoTrace ==
    [][(/\ last.proto = "tcc" /\ last.op = "cancel" /\ last.pre.ledger = <<>>
        /\ last'.proto = "tcc" /\ last'.op = "try"
        /\ last'.svc = last.svc /\ last'.order = last.order)
         => /\ TccLedger(last.svc, last.order) = <<>>
            /\ (/\ last.svc \in {"inventory", "payment"}
                /\ last.order \in OrderIds
                /\ TccAvailable(last.svc, last.order) >= Required(last.svc, last.order))
                  => /\ last'.res = "ok"
                     /\ TccAvailable(last.svc, last.order)'
                          = TccAvailable(last.svc, last.order) - Required(last.svc, last.order)
                     /\ TccCurrent(last.svc, last.order)' = TccCurrent(last.svc, last.order)
                     /\ TccLedger(last.svc, last.order)' = <<"pending">>
            /\ last.svc = "orders"
                  => /\ last.res = "ok"
                     /\ last'.res = "ok"
                     /\ TccLedger("orders", last.order)' = <<"pending">>]_vars

\* a Cancel came for an order that never had a ledger row, while the other
\* order held a reservation; it wrote nothing and enough is left available
\* for the delayed Try
C38_Witness ==
    /\ last.proto = "tcc" /\ last.op = "cancel" /\ last.svc = "inventory"
    /\ last.order \in OrderIds
    /\ last.res = "ok" /\ last.pre.ledger = <<>>
    /\ TccLedger("inventory", last.order) = <<>>
    /\ TccAvailable("inventory", last.order) < TccCurrent("inventory", last.order)
    /\ TccAvailable("inventory", last.order) >= Required("inventory", last.order)

\* ------------------------------------------------------------------------
\* Saga Inventory and Payments, one SQL statement at a time
\* ------------------------------------------------------------------------
\* Every forward step and every compensation is one database transaction:
\* BeginTx, SELECT ... FOR UPDATE of the resource row, the idempotency query,
\* the business rule, the UPDATE with the ledger INSERT, Commit. Requests of
\* several connections interleave between the statements. Postgres gives the
\* row lock to one transaction at a time and keeps it until Commit or
\* Rollback; the UPDATE is relative to the committed row; nothing a
\* transaction wrote is visible before its Commit.

NumConnections == 2

Connections == 1..NumConnections

NoTx == [pc |-> "idle", svc |-> "", op |-> "", order |-> GhostOrder, read |-> 0]

NoEntity ==
    [op |-> "", args |-> <<>>, pre |-> "", err |-> "", row |-> "",
     order |-> [id |-> GhostOrder, user_id |-> "", product_id |-> "", amount |-> 0, status |-> ""]]

StepInit ==
    /\ tx = [c \in Connections |-> NoTx]
    /\ entity = NoEntity

\* the row a request of the service locks: the product, resp. the wallet
TxResource(svc, o) == IF svc = "inventory" THEN ProductOf(o) ELSE UserOf(o)

\* the transaction of connection c has locked its row and not yet finished
TxHoldsLock(c) == tx[c].pc \in {"locked", "checked"}

\* variant: SELECT without FOR UPDATE, which never waits for another transaction
RowLockedNever(svc, o, c) == FALSE

\* FOR UPDATE: another connection holds the lock of the row this request wants
RowLocked(svc, o, c) ==
    \E d \in Connections \ {c} :
        /\ TxHoldsLock(d)
        /\ tx[d].svc = svc
        /\ TxResource(svc, tx[d].order) = TxResource(svc, o)

\* SELECT ... FOR UPDATE of the resource row, on the committed tables
TxGetForUpdate(svc, o) ==
    IF svc = "inventory"
    THEN LET got == SagaGetProductForUpdate(sagaProducts, Payload(o).product_id)
         IN  [err |-> got.err, read |-> got.current_stock]
    ELSE LET got == SagaGetWalletForUpdate(sagaWallets, Payload(o).user_id)
         IN  [err |-> got.err, read |-> got.current_amount]

\* variant: the use case without its idempotency query
TxAlreadyDoneNever(svc, op, o) == FALSE

\* the idempotency query: the ledger row this operation would insert exists
TxAlreadyDone(svc, op, o) ==
    IF svc = "inventory"
    THEN GetMovementByOrderIDAndType(sagaMovements, Payload(o).order_id,
                                     IF op = "forward" THEN "decreased" ELSE "increased")
    ELSE GetPaymentByOrderIDAndType(sagaPayments, Payload(o).order_id,
                                    IF op = "forward" THEN "debit" ELSE "credit")

\* the business rule of a forward step, on the value read under the lock;
\* a compensation has none
TxInsufficient(svc, op, o, read) ==
    /\ op = "forward"
    /\ IF svc = "inventory" THEN read < 1 ELSE read < Payload(o).amount

\* the repository call: UPDATE of the resource row and INSERT of the ledger row
TxRepository(svc, op, o) ==
    IF svc = "inventory"
    THEN LET r == IF op = "forward"
                  THEN RepoDecreaseStock(sagaProducts, sagaMovements,
                                         Payload(o).product_id, Payload(o).order_id)
                  ELSE RepoIncreaseStock(sagaProducts, sagaMovements,
                                         Payload(o).product_id, Payload(o).order_id)
         IN  [err |-> r.err, products |-> r.products, movements |-> r.movements,
              wallets |-> sagaWallets, payments |-> sagaPayments]
    ELSE LET r == IF op = "forward"
                  THEN DebitWallet(sagaWallets, sagaPayments, Payload(o).user_id,
                                   Payload(o).order_id, Payload(o).amount)
                  ELSE CreditWallet(sagaWallets, sagaPayments, Payload(o).user_id,
                                    Payload(o).order_id, Payload(o).amount)
         IN  [err |-> r.err, products |-> sagaProducts, movements |-> sagaMovements,
              wallets |-> r.wallets, payments |-> r.payments]

\* the use case returns without Commit: the deferred Rollback ends the
\* transaction, the handler answers
TxReturn(c, res) ==
    /\ tx' = [tx EXCEPT ![c] = NoTx]
    /\ last' = SagaLast(tx[c].svc, tx[c].op, tx[c].order, res)
    /\ UNCHANGED <<sagaProducts, sagaMovements, sagaWallets, sagaPayments>>

\* a request arrives on a free connection: BeginTx. Inventory and Payments
\* are separate services over separate databases; a run puts one of them
\* under load
TxBegin(c, svc, op, o) ==
    /\ tx[c].pc = "idle"
    /\ last.svc \in {"", svc}
    /\ \A d \in Connections : tx[d].svc \in {"", svc}
    /\ tx' = [tx EXCEPT ![c] = [pc |-> "begun", svc |-> svc, op |-> op, order |-> o, read |-> 0]]
    /\ UNCHANGED <<sagaProducts, sagaMovements, sagaWallets, sagaPayments, last>>

\* GetProductForUpdate / GetWalletForUpdate: waits while the row is locked
TxLock(c) ==
    /\ tx[c].pc = "begun"
    /\ ~RowLocked(tx[c].svc, tx[c].order, c)
    /\ LET got == TxGetForUpdate(tx[c].svc, tx[c].order)
       IN  IF got.err # ""
           THEN TxReturn(c, got.err)
           ELSE /\ tx' = [tx EXCEPT ![c].pc = "locked", ![c].read = got.read]
                /\ UNCHANGED <<sagaProducts, sagaMovements, sagaWallets, sagaPayments, last>>

\* the idempotency query, then the business rule
TxCheck(c) ==
    /\ tx[c].pc = "locked"
    /\ IF TxAlreadyDone(tx[c].svc, tx[c].op, tx[c].order)
       THEN TxReturn(c, "ok")
       ELSE IF TxInsufficient(tx[c].svc, tx[c].op, tx[c].order, tx[c].read)
       THEN TxReturn(c, "insufficient")
       ELSE /\ tx' = [tx EXCEPT ![c].pc = "checked"]
            /\ UNCHANGED <<sagaProducts, sagaMovements, sagaWallets, sagaPayments, last>>

\* the repository call and Commit; a statement that fails rolls back
TxWriteAndCommit(c) ==
    /\ tx[c].pc = "checked"
    /\ LET r == TxRepository(tx[c].svc, tx[c].op, tx[c].order)
       IN  IF r.err # ""
           THEN TxReturn(c, r.err)
           ELSE /\ sagaProducts' = r.products
                /\ sagaMovements' = r.movements
                /\ sagaWallets' = r.wallets
                /\ sagaPayments' = r.payments
                /\ tx' = [tx EXCEPT ![c] = NoTx]
                /\ last' = SagaLast(tx[c].svc, tx[c].op, tx[c].order, "ok")

SagaTxFrame ==
    UNCHANGED <<sagaOrders, sagaPhase, sagaStep, sagaComp, sagaResp, tccVars, xaVars, entity>>

SagaTxNext ==
    \E c \in Connections :
        \/ \E svc \in {"inventory", "payments"}, op \in {"forward", "compensate"}, o \in AllOrders :
               TxBegin(c, svc, op, o) /\ SagaTxFrame
        \/ TxLock(c) /\ SagaTxFrame
        \/ TxCheck(c) /\ SagaTxFrame
        \/ TxWriteAndCommit(c) /\ SagaTxFrame

\* C33: no oversell under concurrency in the Saga variant. Concurrent
\* DecreaseStock requests of distinct orders on one product, and concurrent
\* DebitPayment requests on one wallet, serialise on the row lock: a request
\* whose order has no forward row yet succeeds and takes its amount exactly
\* when the committed row covers the amount at the time it finishes, and
\* fails as insufficient, changing nothing, otherwise (so with stock k, k
\* decreases succeed and the rest are refused); current_stock and
\* current_amount are never negative.
C33_NoOversell ==
    /\ \A p \in ProductRows : sagaProducts[p] >= 0
    /\ \A u \in UserRows : sagaWallets[u] >= 0
    /\ (/\ last.proto = "saga" /\ last.op = "forward" /\ last.svc \in {"inventory", "payments"}
        /\ last.order \in OrderIds
        /\ \A i \in 1..Len(last.pre.ledger) : last.pre.ledger[i] # SagaForwardType(last.svc))
          => IF last.pre.current >= SagaRequired(last.svc, last.order)
             THEN /\ last.res = "ok"
                  /\ SagaCurrent(last.svc, last.order)
                        = last.pre.current - SagaRequired(last.svc, last.order)
             ELSE /\ last.res = "insufficient"
                  /\ SagaCurrent(last.svc, last.order) = last.pre.current

\* two orders asked for the last unit: one DecreaseStock committed and took
\* it, the other one got the row lock after that Commit and read stock 0
C33_Witness ==
    /\ last.proto = "saga" /\ last.op = "forward" /\ last.svc = "inventory"
    /\ last.res = "ok" /\ last.pre.current = 1
    /\ sagaProducts[ProductOf(last.order)] = 0
    /\ \E c \in Connections :
           /\ tx[c].pc = "locked" /\ tx[c].svc = "inventory" /\ tx[c].op = "forward"
           /\ tx[c].order \in OrderIds \ {last.order}
           /\ tx[c].read = 0

\* the ledger holds at most one row of each type for each order
SagaLedgerUnique ==
    \A svc \in {"inventory", "payments"} : \A o \in AllOrders :
        \A i, j \in 1..Len(SagaLedger(svc, o)) :
            SagaLedger(svc, o)[i] = SagaLedger(svc, o)[j] => i = j

\* the ledger type a delivery writes
SagaLedgerType(svc, op) ==
    IF op = "forward" THEN SagaForwardType(svc) ELSE SagaReverseType(svc)

\* C34: concurrent duplicate delivery has a single effect in the Saga
\* variant. When deliveries of the same forward step, or of the same
\* Compensate, of one order run concurrently, the delivery that finishes
\* after the ledger row of the step was committed returns success and changes
\* neither the resource row nor the ledger, so the row is changed once; and
\* each ledger holds at most one row per order and type in every state.
C34_DuplicateSingleEffect ==
    /\ SagaLedgerUnique
    /\ (/\ last.proto = "saga" /\ last.svc \in {"inventory", "payments"}
        /\ last.op \in {"forward", "compensate"}
        /\ \E i \in 1..Len(last.pre.ledger) :
               last.pre.ledger[i] = SagaLedgerType(last.svc, last.op))
          => /\ last.res = "ok"
             /\ SagaCurrent(last.svc, last.order) = last.pre.current
             /\ SagaLedger(last.svc, last.order) = last.pre.ledger

\* two deliveries of the DebitPayment of one order run at the same time: one
\* has committed the debit, the other one has begun its transaction and is
\* about to take the wallet lock
C34_Witness ==
    /\ last.proto = "saga" /\ last.svc = "payments" /\ last.op = "forward"
    /\ last.order \in OrderIds
    /\ last.res = "ok"
    /\ last.pre.ledger = <<>>
    /\ SagaLedger("payments", last.order) = <<"debit">>
    /\ sagaWallets[UserOf(last.order)] = last.pre.current - AmountOf(last.order)
    /\ \E c \in Connections :
           /\ tx[c].pc = "begun" /\ tx[c].svc = "payments" /\ tx[c].op = "forward"
           /\ tx[c].order = last.order

\* ------------------------------------------------------------------------
\* The Order entity of Saga Orders
\* ------------------------------------------------------------------------
RequestUsers == {UserOf(o) : o \in AllOrders}

RequestProducts == {ProductOf(o) : o \in AllOrders}

EntityFrame ==
    UNCHANGED <<sagaProducts, sagaMovements, sagaWallets, sagaPayments, sagaPhase, sagaStep,
                sagaComp, sagaResp, tccVars, xaVars, tx, last>>

\* NewOrder called with any id, user, product and amount
EntityNewOrder(id, userID, productID, amount) ==
    /\ entity' = [op |-> "new", args |-> <<id, userID, productID, amount>>, pre |-> "",
                  err |-> "", row |-> "", order |-> NewOrder(id, userID, productID, amount)]
    /\ UNCHANGED sagaOrders
    /\ EntityFrame

\* GetOrder: the Order value scanned from the row of the order
EntityGetOrder(o) ==
    /\ sagaOrders[o] # ""
    /\ entity' = [op |-> "get", args |-> <<o>>, pre |-> "", err |-> "", row |-> sagaOrders[o],
                  order |-> [NewOrder(o, Payload(o).user_id, Payload(o).product_id, Payload(o).amount)
                                EXCEPT !.status = sagaOrders[o]]]
    /\ UNCHANGED sagaOrders
    /\ EntityFrame

\* Fail called on the Order value in memory
EntityFail ==
    /\ entity.op # ""
    /\ entity' = [entity EXCEPT !.op = "fail", !.pre = entity.order.status,
                                !.err = Fail(entity.order).err,
                                !.order = Fail(entity.order).order]
    /\ UNCHANGED sagaOrders
    /\ EntityFrame

\* CreateFailedOrder called for a request and an order id
EntityCreateFailedOrder(o, id) ==
    LET r == CreateFailedOrder(sagaOrders, Payload(o), id)
    IN  /\ sagaOrders' = r.orders
        /\ entity' = [op |-> "stub", args |-> <<id, Payload(o).user_id, Payload(o).product_id,
                                               Payload(o).amount>>,
                      pre |-> sagaOrders[id], err |-> IF r.res = "ok" THEN "" ELSE r.res,
                      row |-> r.orders[id], order |-> r.order]
        /\ EntityFrame

EntityNext ==
    \/ \E id \in AllOrders, u \in RequestUsers, p \in RequestProducts, a \in RequestAmounts :
           EntityNewOrder(id, u, p, a)
    \/ \E o \in OrderIds : EntityGetOrder(o)
    \/ EntityFail
    \/ \E o \in OrderIds, id \in AllOrders : EntityCreateFailedOrder(o, id)
    \/ \E o \in OrderIds : OrdersFreeCreate(o) \/ OrdersFreeComplete(o) \/ OrdersFreeCompensate(o)

\* C37: the Saga Order entity. NewOrder yields an order with the id, user,
\* product and amount it was given, in status pending. Fail moves a pending
\* order to rejected; on an order in any other status it returns an error and
\* leaves the status as it is. The failed-order stub that CreateFailedOrder
\* writes is therefore a rejected order.
C37_OrderLifecycle ==
    /\ entity.op = "new"
          => entity.order = [id |-> entity.args[1], user_id |-> entity.args[2],
                             product_id |-> entity.args[3], amount |-> entity.args[4],
                             status |-> OrderStatusPending]
    /\ entity.op = "fail"
          => IF entity.pre = OrderStatusPending
             THEN entity.err = "" /\ entity.order.status = OrderStatusRejected
             ELSE entity.err # "" /\ entity.order.status = entity.pre
    /\ entity.op = "stub"
          => /\ entity.order.status = OrderStatusRejected
             /\ (entity.pre = "" => entity.err = "" /\ entity.row = OrderStatusRejected)
             /\ (entity.pre # "" => entity.err # "" /\ entity.row = entity.pre)

\* Fail was called on a completed order read back from the table
C37_Witness ==
    /\ entity.op = "fail"
    /\ entity.pre = OrderStatusCompleted
    /\ entity.err # ""
    /\ entity.order.status = OrderStatusCompleted

\* ------------------------------------------------------------------------
\* Specifications
\* ------------------------------------------------------------------------
TccInit ==
    /\ tccProducts = [p \in ProductRows |-> [current_stock |-> InitStock, stock_available |-> InitStock]]
    /\ tccMovements = [o \in AllOrders |-> <<>>]
    /\ tccWallets = [u \in UserRows |-> [current_amount |-> InitAmount, available_amount |-> InitAmount]]
    /\ tccPayments = [o \in AllOrders |-> <<>>]
    /\ tccOrders = [o \in AllOrders |-> ""]
    /\ tccPhase = [o \in AllOrders |-> "idle"]
    /\ tccNext = [o \in AllOrders |-> 1]
    /\ tccResp = [o \in AllOrders |-> 0]

SagaInit ==
    /\ sagaProducts = [p \in ProductRows |-> InitStock]
    /\ sagaMovements = [o \in AllOrders |-> <<>>]
    /\ sagaWallets = [u \in UserRows |-> InitAmount]
    /\ sagaPayments = [o \in AllOrders |-> <<>>]
    /\ sagaOrders = [o \in AllOrders |-> ""]
    /\ sagaPhase = [o \in AllOrders |-> "idle"]
    /\ sagaStep = [o \in AllOrders |-> 1]
    /\ sagaComp = [o \in AllOrders |-> 0]
    /\ sagaResp = [o \in AllOrders |-> 0]

XaInit ==
    /\ xaInitialStock \in [ProductRows -> 0..InitStock]
    /\ xaProducts = xaInitialStock
    /\ xaMovements = [o \in AllOrders |-> 0]
    /\ xaWallets = [u \in UserRows |-> InitAmount]
    /\ xaPayments = [o \in AllOrders |-> 0]
    /\ xaOrders = [o \in AllOrders |-> ""]
    /\ xaPhase = [o \in AllOrders |-> "idle"]
    /\ xaNext = [o \in AllOrders |-> 1]
    /\ xaPrepared = [o \in AllOrders |-> {}]
    /\ xaResp = [o \in AllOrders |-> 0]
    /\ xaFailed = [o \in AllOrders |-> NoFailure]

\* the 2PC/XA databases as the scripts seed them
XaSeeded == XaInit /\ xaInitialStock = [p \in ProductRows |-> InitStock]

Init ==
    /\ TccInit
    /\ SagaInit
    /\ XaSeeded
    /\ last = NoLast
    /\ StepInit

\* the 2PC/XA variant started with any stock up to the seeded one
\* the Saga databases with a wallet that holds nothing, or the seeded amount
InitSagaAnyFunds ==
    /\ TccInit
    /\ sagaProducts = [p \in ProductRows |-> InitStock]
    /\ sagaMovements = [o \in AllOrders |-> <<>>]
    /\ sagaWallets \in [UserRows -> {0, InitAmount}]
    /\ sagaPayments = [o \in AllOrders |-> <<>>]
    /\ sagaOrders = [o \in AllOrders |-> ""]
    /\ sagaPhase = [o \in AllOrders |-> "idle"]
    /\ sagaStep = [o \in AllOrders |-> 1]
    /\ sagaComp = [o \in AllOrders |-> 0]
    /\ sagaResp = [o \in AllOrders |-> 0]
    /\ XaSeeded
    /\ last = NoLast
    /\ StepInit

\* the TCC databases with a wallet that holds nothing, or the seeded amount
InitTccAnyFunds ==
    /\ tccProducts = [p \in ProductRows |-> [current_stock |-> InitStock, stock_available |-> InitStock]]
    /\ tccMovements = [o \in AllOrders |-> <<>>]
    /\ \E a \in {0, InitAmount} :
           tccWallets = [u \in UserRows |-> [current_amount |-> a, available_amount |-> a]]
    /\ tccPayments = [o \in AllOrders |-> <<>>]
    /\ tccOrders = [o \in AllOrders |-> ""]
    /\ tccPhase = [o \in AllOrders |-> "idle"]
    /\ tccNext = [o \in AllOrders |-> 1]
    /\ tccResp = [o \in AllOrders |-> 0]
    /\ SagaInit
    /\ XaSeeded
    /\ last = NoLast
    /\ StepInit

InitXA ==
    /\ TccInit
    /\ SagaInit
    /\ XaInit
    /\ last = NoLast
    /\ StepInit

\* the Saga variant started with a product that is sold out or fully stocked
InitSagaAnyStock ==
    /\ TccInit
    /\ sagaProducts \in [ProductRows -> {0, InitStock}]
    /\ sagaMovements = [o \in AllOrders |-> <<>>]
    /\ sagaWallets = [u \in UserRows |-> InitAmount]
    /\ sagaPayments = [o \in AllOrders |-> <<>>]
    /\ sagaOrders = [o \in AllOrders |-> ""]
    /\ sagaPhase = [o \in AllOrders |-> "idle"]
    /\ sagaStep = [o \in AllOrders |-> 1]
    /\ sagaComp = [o \in AllOrders |-> 0]
    /\ sagaResp = [o \in AllOrders |-> 0]
    /\ XaSeeded
    /\ last = NoLast
    /\ StepInit

\* the TCC variant driven by its coordinator
SpecTCC == Init /\ [][TccNext]_vars

\* the TCC Inventory and Payment participants under any deliveries
SpecTCCFree == Init /\ [][TccFreeNext]_vars

SpecTCCAllFree == Init /\ [][TccAllFreeNext]_vars

\* the Saga variant driven by its coordinator
SpecSaga == Init /\ [][SagaNext]_vars

\* the Saga Inventory and Payments participants under any deliveries
SpecSagaFree == Init /\ [][SagaFreeNext]_vars

InitSagaTx ==
    /\ TccInit
    /\ sagaProducts \in [ProductRows -> 0..InitStock]
    /\ sagaMovements = [o \in AllOrders |-> <<>>]
    /\ sagaWallets \in [UserRows -> 0..InitAmount]
    /\ sagaPayments = [o \in AllOrders |-> <<>>]
    /\ sagaOrders = [o \in AllOrders |-> ""]
    /\ sagaPhase = [o \in AllOrders |-> "idle"]
    /\ sagaStep = [o \in AllOrders |-> 1]
    /\ sagaComp = [o \in AllOrders |-> 0]
    /\ sagaResp = [o \in AllOrders |-> 0]
    /\ XaSeeded
    /\ last = NoLast
    /\ StepInit

SpecSagaTx == InitSagaTx /\ [][SagaTxNext]_vars

SpecParticipantsFree == Init /\ [][ParticipantsFreeNext]_vars

\* the Saga participants under any deliveries, from a sold-out or a full stock
SpecSagaFreeAnyStock == InitSagaAnyStock /\ [][SagaFreeNext]_vars

\* the 2PC/XA variant driven by its coordinator
SpecXA == InitXA /\ [][XaNextStep]_vars

\* the 2PC/XA Inventory and Payment participants under any deliveries
SpecXAFree == Init /\ [][XaFreeNext]_vars

\* the Saga and TCC Orders participants under any deliveries
SpecOrdersFree == Init /\ [][OrdersFreeNext]_vars

SpecEntity == Init /\ [][EntityNext]_vars
SpecAdapters == InitXA /\ [][AdaptersNext]_vars
SpecSagaFair == InitSagaAnyFunds /\ [][SagaNext]_vars /\ SagaFairness
SpecTCCFair == InitTccAnyFunds /\ [][TccScenarioNext]_vars /\ TccFairness

====
